---------------------------- MODULE Spec2Model ----------------------------
(***************************************************************************)
(* A model of solitext, a terminal Klondike Solitaire: the card            *)
(* collections of game_state.rs, the cursor of selection.rs / tui.rs, the  *)
(* move validation of game_logic.rs and the key loop of tui.rs.            *)
(*                                                                         *)
(* A Vec is a sequence whose last element is the top of the pile           *)
(* (Vec::push appends, Vec::pop removes the last element).                 *)
(* A Result<(), ()> is a BOOLEAN (TRUE is Ok), an Option<Card> a sequence  *)
(* of zero or one card.                                                    *)
(***************************************************************************)
EXTENDS Integers, Sequences, FiniteSets, TLC

---------------------------------------------------------------------------
(* cards.rs *)

Ace == 1
Jack == 11
Queen == 12
King == 13
Hearts == 0
Spades == 1
Diamonds == 2
Clubs == 3

Suits == Hearts..Clubs
Ranks == Ace..King

Card(s, r) == [suit |-> s, rank |-> r]

AllCards == {Card(s, r) : s \in Suits, r \in Ranks}

is_red(suit) == suit \in {Hearts, Diamonds}

\* suit-major, rank-ascending
ordered_deck == [i \in 1..(Cardinality(Suits) * Cardinality(Ranks)) |->
                    Card((i - 1) \div Cardinality(Ranks),
                         ((i - 1) % Cardinality(Ranks)) + 1)]

---------------------------------------------------------------------------
(* Sequence helpers standing for Vec methods *)

Last(s) == s[Len(s)]
Front(s) == SubSeq(s, 1, Len(s) - 1)
Reverse(s) == [i \in 1..Len(s) |-> s[Len(s) + 1 - i]]
Min(a, b) == IF a < b THEN a ELSE b

---------------------------------------------------------------------------
(* game_state.rs *)

COLUMN_COUNT == 7
CARD_PILES_COUNT == 4
ColumnIndices == 0..(COLUMN_COUNT - 1)
PileIndices == 0..(CARD_PILES_COUNT - 1)

\* An entry of a CardColumn: (Card, CardState)
Entry(c, st) == [card |-> c, state |-> st]

\* CardColumn::take without its `v.reverse()`: the cards are returned in the
\* order they were popped, the top card first
CardColumn_take_top_first(col, count) ==
    IF count <= Len(col)
    THEN [ok |-> TRUE,
          cards |-> [i \in 1..count |-> col[Len(col) + 1 - i].card],
          coll |-> SubSeq(col, 1, Len(col) - count)]
    ELSE [ok |-> FALSE, cards |-> <<>>, coll |-> <<>>]

\* CardColumn::take that reads the top cards and leaves them in the column
CardColumn_take_keeps(col, count) ==
    IF count <= Len(col)
    THEN [ok |-> TRUE,
          cards |-> [i \in 1..count |-> col[Len(col) - count + i].card],
          coll |-> col]
    ELSE [ok |-> FALSE, cards |-> <<>>, coll |-> col]

\* CardColumn::take: pops `count` entries one by one; the `?` returns Err at
\* the first pop of an empty Vec, and the entries popped before it are gone.
CardColumn_take(col, count) ==
    IF count <= Len(col)
    THEN [ok |-> TRUE,
          cards |-> [i \in 1..count |-> col[Len(col) - count + i].card],
          coll |-> SubSeq(col, 1, Len(col) - count)]
    ELSE [ok |-> FALSE, cards |-> <<>>, coll |-> <<>>]

\* CardColumn::receive that leaves the received cards face down
CardColumn_receive_face_down(col, cards) ==
    [ok |-> TRUE,
     coll |-> col \o [i \in 1..Len(cards) |-> Entry(cards[i], "FaceDown")]]

\* CardColumn::receive that pushes cards[0] only, as CardPile::receive does
CardColumn_receive_first(col, cards) ==
    [ok |-> TRUE,
     coll |-> IF Len(cards) = 0 THEN col
              ELSE Append(col, Entry(cards[1], "FaceUp"))]

\* CardColumn::receive that pushes the cards from the last to the first
CardColumn_receive_reversed(col, cards) ==
    [ok |-> TRUE,
     coll |-> col \o [i \in 1..Len(cards) |->
                         Entry(cards[Len(cards) + 1 - i], "FaceUp")]]

CardColumn_receive(col, cards) ==
    [ok |-> TRUE,
     coll |-> col \o [i \in 1..Len(cards) |-> Entry(cards[i], "FaceUp")]]

CardColumn_peek(col) == IF Len(col) = 0 THEN <<>> ELSE <<Last(col).card>>

\* peek_n with a saturating subtraction: asked for more cards than the
\* column holds, it answers with the whole column
CardColumn_peek_n_saturating(col, count) ==
    LET n == Min(count, Len(col)) IN
    [some |-> TRUE, cards |-> [i \in 1..n |-> col[Len(col) - n + i].card]]

CardColumn_peek_n(col, count) ==
    IF count > Len(col)
    THEN [some |-> FALSE, cards |-> <<>>]
    ELSE [some |-> TRUE,
          cards |-> [i \in 1..count |-> col[Len(col) - count + i].card]]

\* CardPile::peek_n: None when `len - count` underflows, else the slice from
\* that index to the end
CardPile_peek_n(pile, count) ==
    IF count > Len(pile)
    THEN [some |-> FALSE, cards |-> <<>>]
    ELSE [some |-> TRUE,
          cards |-> SubSeq(pile, Len(pile) - count + 1, Len(pile))]

\* Vec<Card>::peek_n reading from the bottom of the pile
Vec_peek_n_from_bottom(v, count) ==
    IF count > Len(v)
    THEN [some |-> FALSE, cards |-> <<>>]
    ELSE [some |-> TRUE, cards |-> SubSeq(v, 1, count)]

Vec_peek_n(v, count) ==
    IF count > Len(v)
    THEN [some |-> FALSE, cards |-> <<>>]
    ELSE [some |-> TRUE, cards |-> SubSeq(v, Len(v) - count + 1, Len(v))]

\* CardPile::take and Vec<Card>::take are the same code
CardPile_take(pile, count) ==
    IF count = 1 /\ Len(pile) > 0
    THEN [ok |-> TRUE, cards |-> <<Last(pile)>>, coll |-> Front(pile)]
    ELSE [ok |-> FALSE, cards |-> <<>>, coll |-> pile]

\* CardPile::receive that pushes every card it is given
CardPile_receive_any(pile, cards) ==
    [ok |-> TRUE, coll |-> pile \o cards]

CardPile_receive(pile, cards) ==
    IF Len(cards) # 1
    THEN [ok |-> FALSE, coll |-> pile]
    ELSE [ok |-> TRUE, coll |-> Append(pile, cards[1])]

CardPile_peek(pile) == IF Len(pile) = 0 THEN <<>> ELSE <<Last(pile)>>

Vec_take(v, count) ==
    IF count = 1 /\ Len(v) > 0
    THEN [ok |-> TRUE, cards |-> <<Last(v)>>, coll |-> Front(v)]
    ELSE [ok |-> FALSE, cards |-> <<>>, coll |-> v]

Vec_receive(v, cards) ==
    IF Len(cards) # 1
    THEN [ok |-> FALSE, coll |-> v]
    ELSE [ok |-> TRUE, coll |-> Append(v, cards[1])]

Vec_peek(v) == IF Len(v) = 0 THEN <<>> ELSE <<Last(v)>>

RECURSIVE FaceUpRun(_, _)
\* number of FaceUp entries counted from position n downwards, stopping at
\* the first entry that is not FaceUp
FaceUpRun(col, n) ==
    IF n = 0 \/ col[n].state # "FaceUp" THEN 0 ELSE 1 + FaceUpRun(col, n - 1)

\* face_up_cards counting from the bottom of the column (no `.rev()`)
face_up_cards_from_bottom(col) ==
    Cardinality({n \in 1..Len(col) :
                    \A k \in 1..n : col[k].state = "FaceUp"})

face_up_cards(col) == FaceUpRun(col, Len(col))

\* GameState::init dealing from the front of the deck (the bottom of the
\* Vec) instead of popping from its end
init_from_front(deck) ==
    [game_mode |-> "DrawOne",
     deck |-> SubSeq(deck, ((COLUMN_COUNT * (COLUMN_COUNT + 1)) \div 2) + 1,
                     Len(deck)),
     deck_drawn |-> <<>>,
     columns |-> [i \in ColumnIndices |->
                    [k \in 1..(i + 1) |->
                        Entry(deck[((i * (i + 1)) \div 2) + k], "FaceDown")]],
     card_piles |-> [i \in PileIndices |-> <<>>]]

\* GameState::init: column i receives i+1 cards popped from the end of the
\* deck, all FaceDown; i*(i+1)/2 cards were popped for the columns before it.
init(deck) ==
    [game_mode |-> "DrawOne",
     deck |-> SubSeq(deck, 1,
                     Len(deck) - ((COLUMN_COUNT * (COLUMN_COUNT + 1)) \div 2)),
     deck_drawn |-> <<>>,
     columns |-> [i \in ColumnIndices |->
                    [k \in 1..(i + 1) |->
                        Entry(deck[Len(deck) - ((i * (i + 1)) \div 2) - (k - 1)],
                              "FaceDown")]],
     card_piles |-> [i \in PileIndices |-> <<>>]]

\* the draw loop moving the cards as one block, their order kept
DrawLoop_block(g, count) ==
    LET n == Min(count, Len(g.deck)) IN
    [g EXCEPT !.deck = SubSeq(g.deck, 1, Len(g.deck) - n),
              !.deck_drawn = g.deck_drawn
                               \o SubSeq(g.deck, Len(g.deck) - n + 1, Len(g.deck))]

RECURSIVE DrawLoop_from_bottom(_, _)
\* the draw loop taking the first card of the Vec, not the last
DrawLoop_from_bottom(g, count) ==
    IF count = 0 THEN g
    ELSE IF Len(g.deck) = 0 THEN DrawLoop_from_bottom(g, count - 1)
    ELSE DrawLoop_from_bottom(
             [g EXCEPT !.deck = Tail(g.deck),
                       !.deck_drawn = Append(g.deck_drawn, Head(g.deck))],
             count - 1)

RECURSIVE DrawLoop(_, _)
\* the `for _ in 0..count` loop of deck_hit
DrawLoop(g, count) ==
    IF count = 0 THEN g
    ELSE IF Len(g.deck) = 0 THEN DrawLoop(g, count - 1)
    ELSE DrawLoop([g EXCEPT !.deck = Front(g.deck),
                            !.deck_drawn = Append(g.deck_drawn, Last(g.deck))],
                  count - 1)

\* deck_hit that recycles the Waste without reversing it
deck_hit_no_reverse(g) ==
    LET g1 == IF Len(g.deck) = 0 /\ Len(g.deck_drawn) # 0
              THEN [g EXCEPT !.deck = g.deck_drawn, !.deck_drawn = <<>>]
              ELSE g
        count == IF g.game_mode = "DrawOne" THEN 1 ELSE 3
    IN  DrawLoop(g1, count)

deck_hit(g) ==
    LET g1 == IF Len(g.deck) = 0 /\ Len(g.deck_drawn) # 0
              THEN [g EXCEPT !.deck = Reverse(g.deck_drawn), !.deck_drawn = <<>>]
              ELSE g
        count == IF g.game_mode = "DrawOne" THEN 1 ELSE 3
    IN  DrawLoop(g1, count)

\* auto_hit without its condition: it draws, and so recycles, on every turn
auto_hit_always(g) == deck_hit(g)

auto_hit(g) ==
    IF Len(g.deck) # 0 /\ Len(g.deck_drawn) = 0 THEN deck_hit(g) ELSE g

\* GameState::default()
DefaultGameState ==
    [game_mode |-> "DrawOne",
     deck |-> <<>>,
     deck_drawn |-> <<>>,
     columns |-> [i \in ColumnIndices |-> <<>>],
     card_piles |-> [i \in PileIndices |-> <<>>]]

\* GameState::victory(): every pile holds its suit, Ace to King
GameState_victory ==
    [DefaultGameState EXCEPT
        !.card_piles = [i \in PileIndices |-> [r \in Ranks |-> Card(i, r)]]]

\* GameState::almost_victory(): the top card of pile 0 lies on column 0
GameState_almost_victory ==
    LET x == GameState_victory IN
    [x EXCEPT !.columns[0] = Append(x.columns[0],
                                    Entry(Last(x.card_piles[0]), "FaceUp")),
              !.card_piles[0] = Front(x.card_piles[0])]

\* GameState::column_is_empty (called by Selection::card_column)
column_is_empty(g, index) == Len(g.columns[index]) = 0

---------------------------------------------------------------------------
(* selection.rs / tui.rs: Selection *)

Deck == [type |-> "Deck", index |-> 0, card_count |-> 0]
Column(i, n) == [type |-> "Column", index |-> i, card_count |-> n]
Pile(i) == [type |-> "Pile", index |-> i, card_count |-> 0]
\* Option<Selection>::None
NoSelection == [type |-> "None", index |-> 0, card_count |-> 0]

card_column(index, g) ==
    Column(index, IF column_is_empty(g, index) THEN 0 ELSE 1)

same_collection(self, other) ==
    CASE self.type = "Deck" -> other.type = "Deck"
      [] self.type = "Column" ->
            IF other.type = "Column" THEN self.index = other.index ELSE FALSE
      [] self.type = "Pile" ->
            IF other.type = "Pile" THEN self.index = other.index ELSE FALSE

card_count(self) == IF self.type = "Column" THEN self.card_count ELSE 1

move_left(self, g) ==
    CASE self.type = "Deck" -> self
      [] self.type = "Column" /\ self.index > 0 -> card_column(self.index - 1, g)
      [] self.type = "Column" /\ ~(self.index > 0) -> Deck
      [] self.type = "Pile" -> card_column(COLUMN_COUNT - 1, g)

\* move_right as a ring: from a foundation it goes on to the Deck
move_right_wrapping(self, g) ==
    CASE self.type = "Deck" -> card_column(0, g)
      [] self.type = "Column" /\ self.index < COLUMN_COUNT - 1 ->
            card_column(self.index + 1, g)
      [] self.type = "Column" /\ ~(self.index < COLUMN_COUNT - 1) -> Pile(0)
      [] self.type = "Pile" -> Deck

move_right(self, g) ==
    CASE self.type = "Deck" -> card_column(0, g)
      [] self.type = "Column" /\ self.index < COLUMN_COUNT - 1 ->
            card_column(self.index + 1, g)
      [] self.type = "Column" /\ ~(self.index < COLUMN_COUNT - 1) -> Pile(0)
      [] self.type = "Pile" -> self

\* card_count is a u8
U8 == 256

\* the outcome of a call that panics: the process ends there
Panic == [type |-> "Panic", index |-> 0, card_count |-> 0]

\* Selection::select_up: the set of its outcomes. `card_count += 1` on a
\* card_count of 255 panics ('attempt to add with overflow') in a build with
\* overflow checks and wraps to 0 in a build without them; every other call
\* has one outcome
select_up(self) ==
    CASE self.type = "Deck" -> {self}
      [] self.type = "Column" /\ self.card_count + 1 < U8 ->
            {Column(self.index, self.card_count + 1)}
      [] self.type = "Column" /\ ~(self.card_count + 1 < U8) ->
            {Panic, Column(self.index, (self.card_count + 1) % U8)}
      [] self.type = "Pile" /\ self.index > 0 -> {Pile(self.index - 1)}
      [] self.type = "Pile" /\ ~(self.index > 0) -> {self}

\* select_down that goes on past the last foundation
select_down_unclamped(self, g) ==
    CASE self.type = "Deck" -> self
      [] self.type = "Column" /\ self.card_count > 0 ->
            Column(self.index, self.card_count - 1)
      [] self.type = "Column" /\ ~(self.card_count > 0) -> self
      [] self.type = "Pile" -> Pile(self.index + 1)

select_down(self, g) ==
    CASE self.type = "Deck" -> self
      [] self.type = "Column" /\ self.card_count > 0 ->
            Column(self.index, self.card_count - 1)
      [] self.type = "Column" /\ ~(self.card_count > 0) -> self
      [] self.type = "Pile" /\ self.index < CARD_PILES_COUNT - 1 ->
            Pile(self.index + 1)
      [] self.type = "Pile" /\ ~(self.index < CARD_PILES_COUNT - 1) -> self

\* Selection::apply_column_selection_rules
selection_rules(self, g, debug_mode) ==
    IF self.type = "Column"
    THEN IF Len(g.columns[self.index]) # 0 /\ self.card_count = 0
         THEN Column(self.index, 1)
         ELSE LET max_count == IF debug_mode
                               THEN Len(g.columns[self.index])
                               ELSE face_up_cards(g.columns[self.index])
              IN  Column(self.index, Min(self.card_count, max_count % U8))
    ELSE self

\* selected_collection(..).take(count): the result and the game state after
selected_take(self, g, count) ==
    CASE self.type = "Deck" ->
            LET t == Vec_take(g.deck_drawn, count) IN
            [ok |-> t.ok, cards |-> t.cards,
             gs |-> [g EXCEPT !.deck_drawn = t.coll]]
      [] self.type = "Column" ->
            LET t == CardColumn_take(g.columns[self.index], count) IN
            [ok |-> t.ok, cards |-> t.cards,
             gs |-> [g EXCEPT !.columns[self.index] = t.coll]]
      [] self.type = "Pile" ->
            LET t == CardPile_take(g.card_piles[self.index], count) IN
            [ok |-> t.ok, cards |-> t.cards,
             gs |-> [g EXCEPT !.card_piles[self.index] = t.coll]]

\* selected_collection(..).receive(cards)
selected_receive(self, g, cards) ==
    CASE self.type = "Deck" ->
            LET r == Vec_receive(g.deck_drawn, cards) IN
            [ok |-> r.ok, gs |-> [g EXCEPT !.deck_drawn = r.coll]]
      [] self.type = "Column" ->
            LET r == CardColumn_receive(g.columns[self.index], cards) IN
            [ok |-> r.ok, gs |-> [g EXCEPT !.columns[self.index] = r.coll]]
      [] self.type = "Pile" ->
            LET r == CardPile_receive(g.card_piles[self.index], cards) IN
            [ok |-> r.ok, gs |-> [g EXCEPT !.card_piles[self.index] = r.coll]]

\* selected_collection(..).peek(): the answer and the game state after.
\* selected_collection lends the collection out of a `&mut GameState`; peek
\* takes `&self` and cannot write to it
selected_peek(self, g) ==
    CASE self.type = "Deck" -> [card |-> Vec_peek(g.deck_drawn), gs |-> g]
      [] self.type = "Column" ->
            [card |-> CardColumn_peek(g.columns[self.index]), gs |-> g]
      [] self.type = "Pile" ->
            [card |-> CardPile_peek(g.card_piles[self.index]), gs |-> g]

\* selected_collection(..).peek_n(count): the answer and the game state
\* after; peek_n takes `&self` as peek does
selected_peek_n(self, g, count) ==
    CASE self.type = "Deck" ->
            LET p == Vec_peek_n(g.deck_drawn, count) IN
            [some |-> p.some, cards |-> p.cards, gs |-> g]
      [] self.type = "Column" ->
            LET p == CardColumn_peek_n(g.columns[self.index], count) IN
            [some |-> p.some, cards |-> p.cards, gs |-> g]
      [] self.type = "Pile" ->
            LET p == CardPile_peek_n(g.card_piles[self.index], count) IN
            [some |-> p.some, cards |-> p.cards, gs |-> g]

---------------------------------------------------------------------------
(* game_logic.rs *)

RECURSIVE VictoryLoop(_, _)
\* the `for pile in &game_state.card_piles` loop of victory, from pile i on
VictoryLoop(g, i) ==
    IF i = CARD_PILES_COUNT THEN TRUE
    ELSE IF Len(g.card_piles[i]) # 0
         THEN IF Last(g.card_piles[i]).rank # King
              THEN FALSE
              ELSE VictoryLoop(g, i + 1)
         ELSE FALSE

\* victory whose loop starts at the second pile
victory_skips_first(g) == VictoryLoop(g, 1)

victory(g) == VictoryLoop(g, 0)

\* The valid_move functions take `&mut GameState`: each answers with
\* ok (TRUE for Ok(()), FALSE for Err(())) and gs, the game state it leaves
\* behind, which is the state left by the last call it made on a collection.

\* valid_move_deck_to_pile that accepts any higher rank of the suit
valid_move_deck_to_pile_any_higher(pile_index, g) ==
    LET deck == selected_peek(Deck, g)
        pile == selected_peek(Pile(pile_index), deck.gs)
        deck_card == deck.card
        pile_card == pile.card
    IN  IF deck_card = <<>> THEN [ok |-> FALSE, gs |-> deck.gs]
        ELSE [ok |-> IF deck_card[1].suit # pile_index THEN FALSE
                     ELSE IF pile_card # <<>>
                          THEN deck_card[1].rank > pile_card[1].rank
                          ELSE deck_card[1].rank = Ace,
              gs |-> pile.gs]

valid_move_deck_to_pile(pile_index, g) ==
    LET deck == selected_peek(Deck, g)
        pile == selected_peek(Pile(pile_index), deck.gs)
        deck_card == deck.card
        pile_card == pile.card
    IN  IF deck_card = <<>> THEN [ok |-> FALSE, gs |-> deck.gs]
        ELSE [ok |-> IF deck_card[1].suit # pile_index THEN FALSE
                     ELSE IF pile_card # <<>>
                          THEN deck_card[1].rank = pile_card[1].rank + 1
                          ELSE deck_card[1].rank = Ace,
              gs |-> pile.gs]

\* valid_move_card_to_column without the colour test
valid_move_card_to_column_any_colour(card, column_index, g) ==
    LET column == selected_peek(Column(column_index, 0), g)
        column_card == column.card
    IN  [ok |-> IF column_card # <<>>
                THEN card.rank + 1 = column_card[1].rank
                ELSE card.rank = King,
         gs |-> column.gs]

valid_move_card_to_column(card, column_index, g) ==
    LET column == selected_peek(Column(column_index, 0), g)
        column_card == column.card
    IN  [ok |-> IF column_card # <<>>
                THEN /\ card.rank + 1 = column_card[1].rank
                     /\ is_red(card.suit) # is_red(column_card[1].suit)
                ELSE card.rank = King,
         gs |-> column.gs]

\* valid_move_deck_to_column that takes the card off the Waste to look at
\* it, where the code peeks
valid_move_deck_to_column_taking(column_index, g) ==
    LET deck == selected_take(Deck, g, 1)
    IN  IF ~deck.ok THEN [ok |-> FALSE, gs |-> deck.gs]
        ELSE valid_move_card_to_column(deck.cards[1], column_index, deck.gs)

valid_move_deck_to_column(column_index, g) ==
    LET deck == selected_peek(Deck, g)
    IN  IF deck.card = <<>> THEN [ok |-> FALSE, gs |-> deck.gs]
        ELSE valid_move_card_to_column(deck.card[1], column_index, deck.gs)

\* valid_move_column_to_column that tests the last card of the run
valid_move_column_to_column_last(from_index, count, to_index, g) ==
    LET cards == selected_peek_n(Column(from_index, count), g, count)
    IN  IF ~cards.some THEN [ok |-> FALSE, gs |-> cards.gs]
        ELSE IF Len(cards.cards) = 0 THEN [ok |-> FALSE, gs |-> cards.gs]
        ELSE valid_move_card_to_column(cards.cards[Len(cards.cards)],
                                       to_index, cards.gs)

valid_move_column_to_column(from_index, count, to_index, g) ==
    LET cards == selected_peek_n(Column(from_index, count), g, count)
    IN  IF ~cards.some THEN [ok |-> FALSE, gs |-> cards.gs]
        ELSE IF Len(cards.cards) = 0 THEN [ok |-> FALSE, gs |-> cards.gs]
        ELSE valid_move_card_to_column(cards.cards[1], to_index, cards.gs)

\* valid_move_column_to_pile without the suit test
valid_move_column_to_pile_any_suit(column_index, count, pile_index, g) ==
    IF count # 1 THEN [ok |-> FALSE, gs |-> g]
    ELSE LET column == selected_peek(Column(column_index, count), g)
             pile == selected_peek(Pile(pile_index), column.gs)
             column_card == column.card
             pile_card == pile.card
         IN  IF column_card = <<>> THEN [ok |-> FALSE, gs |-> column.gs]
             ELSE [ok |-> IF pile_card # <<>>
                          THEN column_card[1].rank = pile_card[1].rank + 1
                          ELSE column_card[1].rank = Ace,
                   gs |-> pile.gs]

\* valid_move_column_to_pile without the card_count test
valid_move_column_to_pile_any_count(column_index, count, pile_index, g) ==
    LET column == selected_peek(Column(column_index, count), g)
        pile == selected_peek(Pile(pile_index), column.gs)
        column_card == column.card
        pile_card == pile.card
    IN  IF column_card = <<>> THEN [ok |-> FALSE, gs |-> column.gs]
        ELSE IF column_card[1].suit # pile_index
        THEN [ok |-> FALSE, gs |-> column.gs]
        ELSE [ok |-> IF pile_card # <<>>
                     THEN column_card[1].rank = pile_card[1].rank + 1
                     ELSE column_card[1].rank = Ace,
              gs |-> pile.gs]

valid_move_column_to_pile(column_index, count, pile_index, g) ==
    IF count # 1 THEN [ok |-> FALSE, gs |-> g]
    ELSE LET column == selected_peek(Column(column_index, count), g)
             pile == selected_peek(Pile(pile_index), column.gs)
             column_card == column.card
             pile_card == pile.card
         IN  IF column_card = <<>> THEN [ok |-> FALSE, gs |-> column.gs]
             ELSE IF column_card[1].suit # pile_index
             THEN [ok |-> FALSE, gs |-> column.gs]
             ELSE [ok |-> IF pile_card # <<>>
                          THEN column_card[1].rank = pile_card[1].rank + 1
                          ELSE column_card[1].rank = Ace,
                   gs |-> pile.gs]

valid_move_pile_to_column(pile_index, column_index, g) ==
    LET pile == selected_peek(Pile(pile_index), g)
    IN  IF pile.card = <<>> THEN [ok |-> FALSE, gs |-> pile.gs]
        ELSE valid_move_card_to_column(pile.card[1], column_index, pile.gs)

\* valid_move that lets the one selected card of a column go back to the
\* Waste
valid_move_back_to_waste(from, to, g) ==
    CASE from.type = "Deck" ->
            (CASE to.type = "Deck" -> [ok |-> FALSE, gs |-> g]
               [] to.type = "Pile" -> valid_move_deck_to_pile(to.index, g)
               [] to.type = "Column" -> valid_move_deck_to_column(to.index, g))
      [] from.type = "Pile" ->
            (CASE to.type = "Deck" -> [ok |-> FALSE, gs |-> g]
               [] to.type = "Pile" -> [ok |-> FALSE, gs |-> g]
               [] to.type = "Column" ->
                    valid_move_pile_to_column(from.index, to.index, g))
      [] from.type = "Column" ->
            (CASE to.type = "Deck" ->
                    [ok |-> from.card_count = 1
                              /\ Len(g.columns[from.index]) > 0,
                     gs |-> g]
               [] to.type = "Pile" ->
                    valid_move_column_to_pile(from.index, from.card_count,
                                              to.index, g)
               [] to.type = "Column" ->
                    valid_move_column_to_column(from.index, from.card_count,
                                                to.index, g))

valid_move(from, to, g) ==
    CASE from.type = "Deck" ->
            (CASE to.type = "Deck" -> [ok |-> FALSE, gs |-> g]
               [] to.type = "Pile" -> valid_move_deck_to_pile(to.index, g)
               [] to.type = "Column" -> valid_move_deck_to_column(to.index, g))
      [] from.type = "Pile" ->
            (CASE to.type = "Deck" -> [ok |-> FALSE, gs |-> g]
               [] to.type = "Pile" -> [ok |-> FALSE, gs |-> g]
               [] to.type = "Column" ->
                    valid_move_pile_to_column(from.index, to.index, g))
      [] from.type = "Column" ->
            (CASE to.type = "Deck" -> [ok |-> FALSE, gs |-> g]
               [] to.type = "Pile" ->
                    valid_move_column_to_pile(from.index, from.card_count,
                                              to.index, g)
               [] to.type = "Column" ->
                    valid_move_column_to_column(from.index, from.card_count,
                                                to.index, g))

\* face_up_on_columns that turns the first card of each column, not the last
face_up_on_columns_first(g) ==
    [g EXCEPT !.columns = [i \in ColumnIndices |->
        IF Len(g.columns[i]) = 0 THEN g.columns[i]
        ELSE <<Entry(Head(g.columns[i]).card, "FaceUp")>>
                 \o Tail(g.columns[i])]]

\* Ensure all card columns end with at least one face-up card: the state of
\* the last entry of each column is overwritten, its card and the entries
\* beneath it are kept (the column is rebuilt as a plain sequence)
face_up_on_columns(g) ==
    [g EXCEPT !.columns = [i \in ColumnIndices |->
        IF Len(g.columns[i]) = 0 THEN g.columns[i]
        ELSE Append(Front(g.columns[i]),
                    Entry(Last(g.columns[i]).card, "FaceUp"))]]

---------------------------------------------------------------------------
(* tui.rs: Ui *)

\* Ui::new, with the fields the key loop reads and writes
Ui_new ==
    [ui_state |-> "Intro",
     cursor |-> Deck,
     selected |-> NoSelection,
     debug_message |-> "",
     debug_mode |-> FALSE]

reset_for_new_game(u) ==
    [u EXCEPT !.cursor = Deck, !.selected = NoSelection, !.debug_message = ""]

\* move_cards without the same_collection test
move_cards_no_same_check(from, to, g) ==
    LET t == selected_take(from, g, card_count(from)) IN
    IF ~t.ok THEN [ok |-> FALSE, gs |-> t.gs]
    ELSE LET r == selected_receive(to, t.gs, t.cards) IN
         [ok |-> r.ok, gs |-> r.gs]

\* Ui::move_cards: the cards taken from the source are dropped when the
\* destination refuses them
move_cards(from, to, g) ==
    IF same_collection(from, to) THEN [ok |-> FALSE, gs |-> g]
    ELSE LET t == selected_take(from, g, card_count(from)) IN
         IF ~t.ok THEN [ok |-> FALSE, gs |-> t.gs]
         ELSE LET r == selected_receive(to, t.gs, t.cards) IN
              [ok |-> r.ok, gs |-> r.gs]

\* cards_action that transfers the cards whatever valid_move answered
cards_action_unvalidated(u, g) ==
    IF u.selected.type # "None"
    THEN LET from == u.selected
             to == u.cursor
             u1 == [u EXCEPT !.selected = NoSelection]
             v == valid_move(from, to, g)
             m == move_cards(from, to, v.gs)
         IN  IF v.ok
             THEN [u |-> [u1 EXCEPT !.debug_message =
                             IF m.ok THEN "move OK" ELSE "move attempt failed"],
                   gs |-> m.gs]
             ELSE [u |-> [u1 EXCEPT !.debug_message = "invalid move"],
                   gs |-> m.gs]
    ELSE IF card_count(u.cursor) > 0
         THEN [u |-> [u EXCEPT !.selected = u.cursor], gs |-> g]
         ELSE [u |-> u, gs |-> g]

\* cards_action that keeps the picked-up selection when the move is judged
\* invalid
cards_action_keeps_selection(u, g) ==
    IF u.selected.type # "None"
    THEN LET from == u.selected
             to == u.cursor
             u1 == [u EXCEPT !.selected = NoSelection]
             v == valid_move(from, to, g)
         IN  IF v.ok
             THEN LET m == move_cards(from, to, v.gs) IN
                  [u |-> [u1 EXCEPT !.debug_message =
                             IF m.ok THEN "move OK" ELSE "move attempt failed"],
                   gs |-> m.gs]
             ELSE [u |-> [u EXCEPT !.debug_message = "invalid move"],
                   gs |-> v.gs]
    ELSE IF card_count(u.cursor) > 0
         THEN [u |-> [u EXCEPT !.selected = u.cursor], gs |-> g]
         ELSE [u |-> u, gs |-> g]

cards_action(u, g) ==
    IF u.selected.type # "None"
    THEN LET from == u.selected
             to == u.cursor
             u1 == [u EXCEPT !.selected = NoSelection]
             v == valid_move(from, to, g)
         IN  IF v.ok
             THEN LET m == move_cards(from, to, v.gs) IN
                  [u |-> [u1 EXCEPT !.debug_message =
                             IF m.ok THEN "move OK" ELSE "move attempt failed"],
                   gs |-> m.gs]
             ELSE [u |-> [u1 EXCEPT !.debug_message = "invalid move"],
                   gs |-> v.gs]
    ELSE IF card_count(u.cursor) > 0
         THEN [u |-> [u EXCEPT !.selected = u.cursor], gs |-> g]
         ELSE [u |-> u, gs |-> g]

RECURSIVE EnterLoop(_, _, _)
\* the `for i in 0..4` loop of enter_key_action, from pile i on; there is no
\* break after a move
EnterLoop(from, g, i) ==
    IF i = CARD_PILES_COUNT THEN g
    ELSE LET v == valid_move(from, Pile(i), g) IN
         IF v.ok
         THEN EnterLoop(from, move_cards(from, Pile(i), v.gs).gs, i + 1)
         ELSE EnterLoop(from, v.gs, i + 1)

enter_key_action(u, g) ==
    IF u.cursor.type = "Deck" THEN [u |-> u, gs |-> deck_hit(g)]
    ELSE IF u.cursor.type = "Column"
         THEN [u |-> u, gs |-> EnterLoop(Column(u.cursor.index, 1), g, 0)]
         ELSE [u |-> u, gs |-> g]

debug_unchecked_cards_action(u, g) ==
    IF u.selected.type # "None"
    THEN [u |-> [u EXCEPT !.selected = NoSelection],
          gs |-> move_cards(u.selected, u.cursor, g).gs]
    ELSE [u |-> [u EXCEPT !.selected = u.cursor], gs |-> g]

debug_check_valid(u, g) ==
    IF u.selected.type # "None"
    THEN LET v == valid_move(u.selected, u.cursor, g) IN
         [u |-> [u EXCEPT !.debug_message =
                    IF v.ok THEN "Ok(())" ELSE "Err(())"],
          gs |-> v.gs]
    ELSE [u |-> [u EXCEPT !.debug_message = ""], gs |-> g]

\* apply_column_selection_rules that clamps the picked-up selection and
\* leaves the cursor as it is
apply_column_selection_rules_selected_only(u, g) ==
    [u EXCEPT !.selected = IF u.selected.type = "None" THEN u.selected
                           ELSE selection_rules(u.selected, g, u.debug_mode)]

\* Ui::apply_column_selection_rules: the cursor is clamped in place; the
\* picked-up selection is copied out of the Option (Selection is Copy), the
\* copy is clamped and dropped, and self.selected keeps its value
apply_column_selection_rules(u, g) ==
    [u EXCEPT !.cursor = selection_rules(u.cursor, g, u.debug_mode)]

COLUMN_MAX_VISIBLE_CARDS == 7
COLUMNS_INIT_ROW == 2
COLUMNS_ROW_STEP == 1

\* Ui::scrolled_column_offset: the offset of a scrolled column
\* (Some((offset, _))), or None for a column that is shown whole
scrolled_column_offset(cards, selected) ==
    IF cards <= COLUMN_MAX_VISIBLE_CARDS
    THEN [some |-> FALSE, offset |-> 0]
    ELSE [some |-> TRUE,
          offset |-> Min(cards - Min(selected, cards),
                         cards - COLUMN_MAX_VISIBLE_CARDS)]

\* Ui::draw_card_column_selection_cursor: TRUE when it returns, FALSE when
\* one of its two `expect`s panics ("column scroll should not exceed total
\* cards", "should not select nonexistent cards"); what it draws is not
\* modelled
draw_card_column_selection_cursor(g, index, count) ==
    LET length == Len(g.columns[index])
        so == scrolled_column_offset(length, count)
        scroll == IF so.some THEN so.offset ELSE 0
    IN  /\ scroll <= length
        /\ count <= COLUMNS_INIT_ROW + COLUMNS_ROW_STEP * (length - scroll)

\* Ui::display_card_selection_cursor: TRUE when it returns, FALSE when it
\* panics
display_card_selection_cursor(selection, g) ==
    IF selection.type = "Column"
    THEN draw_card_column_selection_cursor(g, selection.index,
                                           selection.card_count)
    ELSE TRUE

\* Ui::display_game_state: TRUE when it returns, FALSE when it panics on
\* the way: the cursor is drawn, then the picked-up selection if there is
\* one
display_game_state(u, g) ==
    /\ display_card_selection_cursor(u.cursor, g)
    /\ u.selected.type # "None" => display_card_selection_cursor(u.selected, g)

\* turn_actions without the victory test
turn_actions_no_victory(u, g) ==
    LET g1 == face_up_on_columns(g)
        g2 == auto_hit(g1)
        u1 == apply_column_selection_rules(u, g2)
    IN  [u |-> u1, gs |-> g2, changed |-> FALSE,
         panicked |-> ~display_game_state(u1, g2)]

\* Ui::turn_actions; `changed` is its return value, `panicked` tells that
\* display_game_state panicked and the call never returned: u and gs are
\* then the Ui and the GameState at the panic
turn_actions(u, g) ==
    LET g1 == face_up_on_columns(g)
        g2 == auto_hit(g1)
        u1 == apply_column_selection_rules(u, g2)
    IN  IF victory(g2)
        THEN [u |-> [u1 EXCEPT !.debug_message = "Victory",
                               !.ui_state = "Victory"],
              gs |-> g2, changed |-> TRUE, panicked |-> FALSE]
        ELSE [u |-> u1, gs |-> g2, changed |-> FALSE,
              panicked |-> ~display_game_state(u1, g2)]

---------------------------------------------------------------------------
(* The program: Ui::run and the loops it dispatches to *)

\* the most draws and card transfers explored in one behaviour
MaxMoves == 2
\* the most keys read in one behaviour of the specification with debug keys
MaxKeys == 7

\* An ordering Card::shuffled_deck can return (its draws are DrawsA). Dealt,
\* it puts the Ace of Hearts on column 0 and King of Spades (over the 3 of
\* Hearts), Queen of Hearts, Ace of Spades, 3 of Spades, 2 of Spades, 3 of
\* Diamonds (two cards over the 2 of Clubs) on top of columns 1 to 6; the
\* Ace of Clubs lies under the Ace of Spades of column 3; the draws give
\* 2 of Hearts, Jack of Hearts, Jack of Spades.
DeckA ==
    << Card(0, 4), Card(0, 5), Card(0, 6), Card(0, 7), Card(0, 8), Card(0, 9),
       Card(0, 10), Card(0, 13), Card(1, 4), Card(1, 5), Card(1, 6), Card(1, 7),
       Card(1, 8), Card(1, 9), Card(1, 10), Card(1, 12), Card(2, 1), Card(2, 2),
       Card(2, 4), Card(2, 5), Card(2, 6), Card(1, 11), Card(0, 11), Card(0, 2),
       Card(2, 3), Card(2, 7), Card(3, 2), Card(2, 8), Card(2, 9), Card(2, 10),
       Card(2, 11), Card(1, 2), Card(2, 12), Card(2, 13), Card(3, 9), Card(3, 3),
       Card(3, 4), Card(1, 3), Card(3, 5), Card(3, 6), Card(3, 7), Card(3, 8),
       Card(1, 1), Card(3, 1), Card(3, 10), Card(3, 11), Card(0, 12), Card(3, 12),
       Card(3, 13), Card(1, 13), Card(0, 3), Card(0, 1) >>

\* Another ordering Card::shuffled_deck can return: DeckA with the 5 of
\* Clubs and the King of Clubs exchanged, so that column 4 is dealt the King
\* of Clubs directly under its top card, the 3 of Spades
DeckB ==
    [i \in 1..Len(DeckA) |->
        IF DeckA[i] = Card(Clubs, 5) THEN Card(Clubs, King)
        ELSE IF DeckA[i] = Card(Clubs, King) THEN Card(Clubs, 5)
        ELSE DeckA[i]]

\* the draws of one run of the shuffle: DrawsA[i] is what gen_index(rng, i + 1)
\* returned at step i of the loop of shuffle, and shuffle(ordered_deck, DrawsA)
\* is DeckA
DrawsA ==
    << 1, 2, 0, 1, 2, 0, 1, 2, 0, 1, 1, 10, 1, 10, 2, 15, 0, 11, 13,
       14, 1, 10, 1, 2, 15, 25, 0, 2, 11, 13, 14, 15, 0, 2, 11, 13,
       15, 0, 0, 25, 11, 13, 39, 0, 25, 11, 2, 0, 25, 2, 0 >>

\* Vec::swap(i, j), with the indices of the code (from 0)
Vec_swap(v, i, j) ==
    LET w == [k \in 1..Len(v) |->
                IF k = i + 1 THEN v[j + 1]
                ELSE IF k = j + 1 THEN v[i + 1] ELSE v[k]]
    IN  SubSeq(w, 1, Len(v))

RECURSIVE ShuffleLoop(_, _, _)
\* the loop of SliceRandom::shuffle (rand 0.8.5) from step i down to step 1:
\* `for i in (1..self.len()).rev() { self.swap(i, gen_index(rng, i + 1)) }`,
\* gen_index(rng, i + 1) being a number of 0..i; draws[i] is the number drawn
\* at step i
ShuffleLoop(v, draws, i) ==
    IF i < 1 THEN v
    ELSE CHOOSE r \in {ShuffleLoop(w, draws, i - 1) :
                          w \in {Vec_swap(v, i, draws[i])}} : TRUE

\* deck.shuffle(&mut rng), the generator drawing the numbers of draws
shuffle(v, draws) == ShuffleLoop(v, draws, Len(v) - 1)

\* the number of runs of the random generator explored
MaxDecks == 1

RECURSIVE RngDigits(_, _)
\* the digits of n for the steps 1 to i of the loop of shuffle, the digit of
\* step j being a number of 0..j and the digit of step i the least
\* significant
RngDigits(n, i) ==
    IF i < 1 THEN <<>>
    ELSE Append(RngDigits(n \div (i + 1), i - 1), n % (i + 1))

\* thread_rng: the draws of the k-th run of the generator explored. Every
\* sequence of draws (a number of 0..i for each step i) is rng_draws(k) for
\* exactly one k of 1..52!: the first is DrawsA, and the k-th differs from
\* DrawsA at step i by the digit of k - 1 for that step, the first step of
\* the loop (the last index of the deck) having the least significant digit
rng_draws(k) ==
    LET digits == RngDigits(k - 1, Len(DrawsA))
        draws == [i \in 1..Len(DrawsA) |-> (DrawsA[i] + digits[i]) % (i + 1)]
    IN  SubSeq(draws, 1, Len(DrawsA))

\* Card::shuffled_deck: ordered_deck shuffled; it returns any of the 52!
\* orderings, each for one sequence of draws of the generator, and
\* shuffled_deck(k) is the ordering returned in the k-th run explored
shuffled_deck(k) ==
    CHOOSE deck \in {shuffle(ordered_deck, draws) : draws \in {rng_draws(k)}} :
        TRUE

\* the orderings Card::shuffled_deck returns in the behaviours explored
Decks == {shuffled_deck(k) : k \in 1..MaxDecks}

VARIABLES
    ui,          \* the Ui
    game_state,  \* the GameState
    pc,          \* "run": at the top of the loop of Ui::run;
                 \* "keys": in the key loop of run_game, after a turn;
                 \* "panicked": the process has ended in a panic
    moves,       \* draws and card transfers made so far
    keys         \* keys read so far (counted by Spec only)

vars == <<ui, game_state, pc, moves, keys>>

\* main: GameState::init(Card::ordered_deck()), Ui::new(), ui.run
InitMain ==
    /\ ui = Ui_new
    /\ game_state = init(ordered_deck)
    /\ pc = "run"
    /\ moves = 0
    /\ keys = 0

\* a game already in play, in the states the tests build: one move before
\* its end (GameState::almost_victory) and at its end (GameState::victory);
\* one more move is explored from there
InitLateGame ==
    /\ ui = [Ui_new EXCEPT !.ui_state = "Game"]
    /\ game_state \in {GameState_almost_victory, GameState_victory}
    /\ pc = "run"
    /\ moves = MaxMoves - 1
    /\ keys = 0

Init == InitMain \/ InitLateGame

RunIntro ==
    /\ pc = "run" /\ ui.ui_state = "Intro"
    /\ ui' = [ui EXCEPT !.ui_state = "NewGame"]
    /\ UNCHANGED <<game_state, pc, moves>>

RunNewGame ==
    /\ pc = "run" /\ ui.ui_state = "NewGame"
    /\ \E d \in Decks : game_state' = init(d)
    /\ ui' = [reset_for_new_game(ui) EXCEPT !.ui_state = "Game"]
    /\ UNCHANGED <<pc, moves>>

\* what follows every key handler in run_game: turn_actions, and the return
\* to Ui::run when the screen changed; h is the handler's result. A panic in
\* turn_actions ends the process
Turn(h) ==
    LET t == turn_actions(h.u, h.gs) IN
    /\ ui' = t.u
    /\ game_state' = t.gs
    /\ pc' = IF t.panicked THEN "panicked"
             ELSE IF t.changed THEN "run" ELSE "keys"
    /\ moves' = IF h.gs # game_state THEN moves + 1 ELSE moves
    /\ moves' <= MaxMoves

\* run_game up to its key loop
RunGame ==
    /\ pc = "run" /\ ui.ui_state = "Game"
    /\ Turn([u |-> ui, gs |-> game_state])

InKeyLoop == pc = "keys" /\ ui.ui_state = "Game"

KeyLeft ==
    /\ InKeyLoop
    /\ Turn([u |-> [ui EXCEPT !.cursor = move_left(ui.cursor, game_state)],
             gs |-> game_state])

KeyRight ==
    /\ InKeyLoop
    /\ Turn([u |-> [ui EXCEPT !.cursor = move_right(ui.cursor, game_state)],
             gs |-> game_state])

KeyUp ==
    /\ InKeyLoop
    /\ \E c \in select_up(ui.cursor) :
         IF c = Panic
         THEN pc' = "panicked" /\ UNCHANGED <<ui, game_state, moves>>
         ELSE Turn([u |-> [ui EXCEPT !.cursor = c], gs |-> game_state])

KeyDown ==
    /\ InKeyLoop
    /\ Turn([u |-> [ui EXCEPT !.cursor = select_down(ui.cursor, game_state)],
             gs |-> game_state])

KeyHome ==
    /\ InKeyLoop
    /\ Turn([u |-> [ui EXCEPT !.cursor = Deck], gs |-> game_state])

KeyEnd ==
    /\ InKeyLoop
    /\ Turn([u |-> [ui EXCEPT !.cursor = Pile(0)], gs |-> game_state])

KeySpace ==
    /\ InKeyLoop
    /\ Turn(cards_action(ui, game_state))

KeyEnter ==
    /\ InKeyLoop
    /\ Turn(enter_key_action(ui, game_state))

KeyX ==
    /\ InKeyLoop
    /\ Turn([u |-> [ui EXCEPT !.selected = NoSelection], gs |-> game_state])

KeyEsc ==
    /\ InKeyLoop
    /\ ui' = [ui EXCEPT !.ui_state = "Quit"]
    /\ pc' = "run"
    /\ UNCHANGED <<game_state, moves>>

KeyD ==
    /\ InKeyLoop
    /\ Turn([u |-> [ui EXCEPT !.debug_mode = ~ui.debug_mode], gs |-> game_state])

KeyC ==
    /\ InKeyLoop
    /\ ui.debug_mode
    /\ Turn(debug_unchecked_cards_action(ui, game_state))

KeyZ ==
    /\ InKeyLoop
    /\ ui.debug_mode
    /\ Turn(debug_check_valid(ui, game_state))

\* run_victory: 'y'
VictoryYes ==
    /\ pc = "run" /\ ui.ui_state = "Victory"
    /\ ui' = [ui EXCEPT !.ui_state = "NewGame"]
    /\ UNCHANGED <<game_state, pc, moves>>

\* run_victory: 'n', Esc, Ctrl+c
VictoryNo ==
    /\ pc = "run" /\ ui.ui_state = "Victory"
    /\ ui' = [ui EXCEPT !.ui_state = "Quit"]
    /\ UNCHANGED <<game_state, pc, moves>>

\* a key is read: SpecPlay does not count keys
Uncounted == UNCHANGED keys

\* a key is read: Spec counts keys and reads at most MaxKeys
Counted == keys < MaxKeys /\ keys' = keys + 1

\* normal play: the debug keys are never pressed
NextPlay ==
    \/ RunIntro /\ Uncounted
    \/ RunNewGame /\ Uncounted
    \/ RunGame /\ Uncounted
    \/ VictoryYes /\ Uncounted
    \/ VictoryNo /\ Uncounted
    \/ KeyLeft /\ Uncounted
    \/ KeyRight /\ Uncounted
    \/ KeyUp /\ Uncounted
    \/ KeyDown /\ Uncounted
    \/ KeyHome /\ Uncounted
    \/ KeyEnd /\ Uncounted
    \/ KeySpace /\ Uncounted
    \/ KeyEnter /\ Uncounted
    \/ KeyX /\ Uncounted
    \/ KeyEsc /\ Uncounted

\* every key, the debug keys included, up to MaxKeys keys
Next ==
    \/ RunIntro /\ Uncounted
    \/ RunNewGame /\ Uncounted
    \/ RunGame /\ Uncounted
    \/ VictoryYes /\ Uncounted
    \/ VictoryNo /\ Uncounted
    \/ KeyLeft /\ Counted
    \/ KeyRight /\ Counted
    \/ KeyUp /\ Counted
    \/ KeyDown /\ Counted
    \/ KeyHome /\ Counted
    \/ KeyEnd /\ Counted
    \/ KeySpace /\ Counted
    \/ KeyEnter /\ Counted
    \/ KeyX /\ Counted
    \/ KeyEsc /\ Counted
    \/ KeyD /\ Counted
    \/ KeyC /\ Counted
    \/ KeyZ /\ Counted

\* the most draw actions made in one behaviour of SpecDeckHit
MaxHits == 3

\* GameState::deck_hit on its own: a deal whose stock has been drawn down to
\* its first k cards, in either game mode, and a game with neither Deck nor
\* Waste left
InitDeckHit ==
    /\ ui = [Ui_new EXCEPT !.ui_state = "Game"]
    /\ pc = "hit"
    /\ moves = 0
    /\ keys = 0
    /\ \E m \in {"DrawOne", "DrawThree"} :
         \/ \E d \in Decks : \E k \in 0..Len(init(d).deck) :
              LET g == face_up_on_columns(init(d)) IN
              game_state =
                [g EXCEPT !.game_mode = m,
                          !.deck = SubSeq(g.deck, 1, k),
                          !.deck_drawn =
                              Reverse(SubSeq(g.deck, k + 1, Len(g.deck)))]
         \/ game_state = [GameState_almost_victory EXCEPT !.game_mode = m]

\* one call of deck_hit
DeckHit ==
    /\ pc = "hit"
    /\ game_state' = deck_hit(game_state)
    /\ moves' = moves + 1
    /\ moves' <= MaxHits
    /\ UNCHANGED <<ui, pc, keys>>

SpecDeckHit == InitDeckHit /\ [][DeckHit]_vars

Spec == Init /\ [][Next]_vars

SpecPlay == Init /\ [][NextPlay]_vars

---------------------------------------------------------------------------
(* Properties *)

ColumnCards(col) == [i \in 1..Len(col) |-> col[i].card]

\* the cards of the 13 collections, one after the other
CardsIn(g) ==
    g.deck \o g.deck_drawn
      \o ColumnCards(g.columns[0]) \o ColumnCards(g.columns[1])
      \o ColumnCards(g.columns[2]) \o ColumnCards(g.columns[3])
      \o ColumnCards(g.columns[4]) \o ColumnCards(g.columns[5])
      \o ColumnCards(g.columns[6])
      \o g.card_piles[0] \o g.card_piles[1]
      \o g.card_piles[2] \o g.card_piles[3]

\* the card sequences of the collections, face states left out
CardLayout(g) ==
    [deck |-> g.deck, deck_drawn |-> g.deck_drawn,
     columns |-> [i \in ColumnIndices |-> ColumnCards(g.columns[i])],
     card_piles |-> g.card_piles]

\* the last turn_actions ran on the game state as it is now
TurnCompleted == pc = "keys" \/ ui.ui_state = "Victory"

\* C1: in normal play the collections together hold each of the 52 cards
\* exactly once
C1_CardConservation ==
    LET cards == CardsIn(game_state) IN
    /\ Len(cards) = Cardinality(AllCards)
    /\ {cards[i] : i \in 1..Len(cards)} = AllCards

\* a validated move has been made after a draw
C1_Witness ==
    /\ ui.debug_message = "move OK"
    /\ Len(game_state.deck_drawn) >= 2
    /\ moves = MaxMoves

\* C2: a Space key with a picked-up selection whose cards_action does not
\* end in "move OK" leaves the whole game state as it was
C2_RejectedMoveMutatesNothing ==
    [][(/\ KeySpace
        /\ ui.selected.type # "None"
        /\ cards_action(ui, game_state).u.debug_message # "move OK")
          => game_state' = game_state]_vars

\* a move was judged invalid
C2_Witness ==
    /\ ui.debug_message = "invalid move"
    /\ pc = "keys"

\* C3 as claimed: an unchecked move whose move_cards returns Err removes no
\* card from and adds no card to any collection
C3_TransferAllOrNothing ==
    [][(KeyC /\ ui.selected.type # "None"
             /\ ~move_cards(ui.selected, ui.cursor, game_state).ok)
          => CardLayout(game_state') = CardLayout(game_state)]_vars

\* C4: foundation i holds Ace, 2, ..., k of suit i, bottom to top
C4_FoundationInvariant ==
    \A i \in PileIndices :
        game_state.card_piles[i] =
            [k \in 1..Len(game_state.card_piles[i]) |-> Card(i, k)]

\* play has built a foundation up to the 2
C4_Witness ==
    /\ game_state.card_piles[Hearts] = <<Card(Hearts, Ace), Card(Hearts, Ace + 1)>>
    /\ Len(game_state.deck) > 0

\* the rule of the foundations: card c may go on foundation i
FoundationAccepts(c, i, g) ==
    /\ c.suit = i
    /\ \/ Len(g.card_piles[i]) = 0 /\ c.rank = Ace
       \/ Len(g.card_piles[i]) > 0 /\ c.rank = Last(g.card_piles[i]).rank + 1

\* C5: a move to foundation i is valid iff the source has a top card that
\* the foundation accepts and, from a column, exactly one card is selected
C5_FoundationAcceptance ==
    \A i \in PileIndices :
        /\ valid_move(Deck, Pile(i), game_state).ok
             <=> /\ Len(game_state.deck_drawn) > 0
                 /\ FoundationAccepts(Last(game_state.deck_drawn), i, game_state)
        /\ \A j \in ColumnIndices :
             \A n \in 0..(Len(game_state.columns[j]) + 1) :
                valid_move(Column(j, n), Pile(i), game_state).ok
                  <=> /\ n = 1
                      /\ Len(game_state.columns[j]) > 0
                      /\ FoundationAccepts(Last(game_state.columns[j]).card,
                                           i, game_state)

\* the Waste top is accepted on a foundation that is not empty, an Ace on a
\* column is accepted on an empty one, and a higher card of the suit is not
C5_Witness ==
    /\ Len(game_state.card_piles[Hearts]) > 0
    /\ valid_move(Deck, Pile(Hearts), game_state).ok
    /\ \E j \in ColumnIndices : valid_move(Column(j, 1), Pile(Spades), game_state).ok
    /\ \E j \in ColumnIndices :
          /\ Len(game_state.columns[j]) > 0
          /\ Last(game_state.columns[j]).card.suit = Hearts
          /\ ~valid_move(Column(j, 1), Pile(Hearts), game_state).ok

\* the rule of the columns: card c may go on column j
ColumnAccepts(c, j, g) ==
    \/ Len(g.columns[j]) = 0 /\ c.rank = King
    \/ /\ Len(g.columns[j]) > 0
       /\ Last(g.columns[j]).card.rank = c.rank + 1
       /\ is_red(Last(g.columns[j]).card.suit) # is_red(c.suit)

\* C6: a move from Waste or from a foundation to column j is valid iff the
\* source has a top card that the column accepts
C6_CardOntoColumn ==
    \A j \in ColumnIndices : \A n \in 0..1 :
        /\ valid_move(Deck, Column(j, n), game_state).ok
             <=> /\ Len(game_state.deck_drawn) > 0
                 /\ ColumnAccepts(Last(game_state.deck_drawn), j, game_state)
        /\ \A i \in PileIndices :
             valid_move(Pile(i), Column(j, n), game_state).ok
               <=> /\ Len(game_state.card_piles[i]) > 0
                   /\ ColumnAccepts(Last(game_state.card_piles[i]), j, game_state)

\* the black Jack on Waste is accepted on the red Queen
C6_Witness ==
    /\ Len(game_state.deck_drawn) > 0
    /\ Last(game_state.deck_drawn) = Card(Spades, Jack)
    /\ \E j \in ColumnIndices :
          /\ Len(game_state.columns[j]) > 0
          /\ Last(game_state.columns[j]).card = Card(Hearts, Queen)
          /\ valid_move(Deck, Column(j, 1), game_state).ok

\* C7: a move of the top n cards of any column i to the column j under the
\* cursor is valid iff n >= 1, column i holds n cards and column j accepts
\* the first card of the run; the destination's card_count m plays no part
C7_ColumnToColumn ==
    ui.cursor.type = "Column" =>
        \A i \in ColumnIndices :
            \A n \in 0..(Len(game_state.columns[i]) + 1) :
                \A m \in {0, 1, ui.cursor.card_count} :
                    valid_move(Column(i, n), Column(ui.cursor.index, m), game_state).ok
                      <=> /\ n >= 1
                          /\ Len(game_state.columns[i]) >= n
                          /\ ColumnAccepts(
                                game_state.columns[i]
                                    [Len(game_state.columns[i]) - n + 1].card,
                                ui.cursor.index, game_state)

\* a run of two cards may move: its first card fits, its last does not
C7_Witness ==
    /\ ui.cursor.type = "Column"
    /\ ui.selected.type = "Column"
    /\ ui.selected.index # ui.cursor.index
    /\ ui.selected.card_count = 2
    /\ face_up_cards(game_state.columns[ui.selected.index]) >= 2
    /\ valid_move(ui.selected, ui.cursor, game_state).ok
    /\ ~valid_move(Column(ui.selected.index, 1), ui.cursor, game_state).ok

\* C8: after a turn, the top card of every column that is not empty is FaceUp
C8_TopCardFaceUp ==
    TurnCompleted =>
        \A i \in ColumnIndices :
            Len(game_state.columns[i]) > 0
                => Last(game_state.columns[i]).state = "FaceUp"

\* the card dealt face down under the top card of column 1 is now its top
C8_Witness ==
    /\ pc = "keys"
    /\ moves > 0
    /\ Len(game_state.columns[1]) = 1
    /\ game_state.columns[1][1].state = "FaceUp"
    /\ init(DeckA).columns[1][1].card = game_state.columns[1][1].card

\* every foundation has a King on top
AllKings(g) ==
    \A i \in PileIndices :
        Len(g.card_piles[i]) > 0 /\ Last(g.card_piles[i]).rank = King

\* C9: victory is true iff every foundation has a King on top; the fresh
\* deal and the game one move from its end are not victories, the screen
\* turns to Victory exactly on a victory, and only the top card of each
\* foundation counts, whatever lies under it
C9_Victory ==
    /\ victory(game_state) <=> AllKings(game_state)
    /\ game_state \in {init(ordered_deck), init(DeckA),
                       GameState_almost_victory} => ~victory(game_state)
    /\ game_state = GameState_victory => victory(game_state)
    /\ TurnCompleted => (ui.ui_state = "Victory" <=> AllKings(game_state))
    /\ \A i \in PileIndices :
          \A p \in {<<>>, <<Card(i, King)>>, <<Card(i, King), Card(i, Queen)>>,
                    <<Card(i, Ace), Card(i, King)>>} :
              LET g == [game_state EXCEPT !.card_piles[i] = p]
              IN  victory(g) <=> AllKings(g)

\* the last card has been dropped on its foundation and the game is won
C9_Witness ==
    /\ ui.ui_state = "Victory"
    /\ ui.cursor.type = "Pile"
    /\ moves = MaxMoves
    /\ victory(game_state)

\* foundation i holds the 13 cards of suit i
FoundationFull(g, i) == g.card_piles[i] = [r \in Ranks |-> Card(i, r)]

\* C10: in normal play victory holds exactly when every foundation holds
\* the 13 ranks of its suit, and then Deck, Waste and the columns are empty
C10_VictoryMeansAllCardsHome ==
    /\ victory(game_state) <=> \A i \in PileIndices : FoundationFull(game_state, i)
    /\ victory(game_state) =>
          /\ Len(game_state.deck) = 0
          /\ Len(game_state.deck_drawn) = 0
          /\ \A j \in ColumnIndices : Len(game_state.columns[j]) = 0

\* the last card was placed from its column by Enter, and victory was
\* detected with the 52 cards on the foundations
C10_Witness ==
    /\ ui.debug_message = "Victory"
    /\ ui.cursor.type = "Column"
    /\ moves = MaxMoves
    /\ \A i \in PileIndices : Len(game_state.card_piles[i]) = Cardinality(Ranks)

\* C11: a won game takes no more game input: the turn that finds the
\* victory leaves the game state as it is and turns the screen to Victory;
\* from Victory the screen goes to NewGame or Quit only, with the game
\* state, the cursor and the selection untouched; NewGame deals afresh
C11_VictoryTerminal ==
    [][/\ (ui.ui_state = "Game" /\ victory(game_state)) =>
              /\ ui'.ui_state = "Victory"
              /\ game_state' = game_state
       /\ ui.ui_state = "Victory" =>
              /\ ui'.ui_state \in {"NewGame", "Quit"}
              /\ game_state' = game_state
              /\ ui'.cursor = ui.cursor
              /\ ui'.selected = ui.selected
       /\ (ui.ui_state = "NewGame" /\ victory(game_state)) =>
              /\ ui'.ui_state = "Game"
              /\ game_state' \in {init(d) : d \in Decks}
       /\ ui'.ui_state = "Victory" => victory(game_state')]_vars

\* a game won by a move, left by 'y' and not yet dealt again
C11_Witness ==
    /\ ui.ui_state = "NewGame"
    /\ victory(game_state)
    /\ moves = MaxMoves

\* the number of cards deck_hit draws in the mode of g
DrawCount(g) == IF g.game_mode = "DrawOne" THEN 1 ELSE 3

\* C12 as claimed: a draw action on an empty Deck and a non-empty Waste
\* leaves Deck equal to the reversed former Waste and Waste empty
C12_RecycleLeavesWasteEmpty ==
    [][(DeckHit /\ Len(game_state.deck) = 0
                /\ Len(game_state.deck_drawn) # 0) =>
          /\ game_state'.deck = Reverse(game_state.deck_drawn)
          /\ game_state'.deck_drawn = <<>>]_vars

\* C12 amended: a draw action on an empty Deck and a non-empty Waste turns
\* the reversed former Waste into the Deck and draws from it at once: Waste
\* then holds the cards drawn (1, or up to 3 in DrawThree), Deck the rest of
\* the reversed former Waste, and Deck plus Waste hold as many cards as
\* before; columns and foundations are as before
C12_RecycleThenDraw ==
    [][(DeckHit /\ Len(game_state.deck) = 0
                /\ Len(game_state.deck_drawn) # 0) =>
          /\ game_state'.deck \o Reverse(game_state'.deck_drawn)
                = Reverse(game_state.deck_drawn)
          /\ Len(game_state'.deck_drawn)
                = Min(DrawCount(game_state), Len(game_state.deck_drawn))
          /\ Len(game_state'.deck) + Len(game_state'.deck_drawn)
                = Len(game_state.deck) + Len(game_state.deck_drawn)
          /\ game_state'.columns = game_state.columns
          /\ game_state'.card_piles = game_state.card_piles]_vars

\* DrawOne: after two draw actions the Deck is one card short of the whole
\* stock, which only a recycle on the way brings about
C12_Witness ==
    /\ pc = "hit"
    /\ game_state.game_mode = "DrawOne"
    /\ moves = 2
    /\ Len(game_state.deck_drawn) = 1
    /\ Len(game_state.deck) + 1 = Len(init(DeckA).deck)

\* C13: a draw action on a non-empty Deck moves 1 card (DrawOne) or
\* min(3, |Deck|) cards (DrawThree) from the top of Deck to the top of
\* Waste one at a time and changes nothing else; with Deck and Waste both
\* empty it changes nothing
C13_DrawSize ==
    [][DeckHit =>
          LET g == game_state
              n == IF g.game_mode = "DrawOne" THEN 1 ELSE Min(3, Len(g.deck))
          IN  /\ Len(g.deck) # 0 =>
                    /\ game_state'.deck = SubSeq(g.deck, 1, Len(g.deck) - n)
                    /\ game_state'.deck_drawn =
                          g.deck_drawn
                            \o [i \in 1..n |-> g.deck[Len(g.deck) + 1 - i]]
                    /\ Last(game_state'.deck_drawn) = g.deck[Len(g.deck) + 1 - n]
                    /\ game_state'.columns = g.columns
                    /\ game_state'.card_piles = g.card_piles
                    /\ game_state'.game_mode = g.game_mode
              /\ (Len(g.deck) = 0 /\ Len(g.deck_drawn) = 0) =>
                    game_state' = g]_vars

\* DrawThree: one action has drawn the last cards of the Deck, three or
\* fewer, and the whole stock lies on the Waste
C13_Witness ==
    /\ pc = "hit"
    /\ game_state.game_mode = "DrawThree"
    /\ moves = 1
    /\ Len(game_state.deck) = 0
    /\ Len(game_state.deck_drawn) = Len(init(DeckA).deck)

\* the number of cards on the four foundations
PileCards(g) ==
    Len(g.card_piles[0]) + Len(g.card_piles[1])
      + Len(g.card_piles[2]) + Len(g.card_piles[3])

\* C14 as claimed: Enter on a column moves at most one card, the card that
\* was on top of the column, and nothing else
C14_AutoPlaceAtMostOneCard ==
    [][(KeyEnter /\ ui.cursor.type = "Column") =>
          LET col == game_state.columns[ui.cursor.index]
              after == enter_key_action(ui, game_state).gs
          IN  /\ Len(after.columns[ui.cursor.index]) >= Len(col) - 1
              /\ PileCards(after) <= PileCards(game_state) + 1]_vars

\* the number of cards of column i that may be selected
Selectable(g, i, debug_mode) ==
    IF debug_mode THEN Len(g.columns[i]) ELSE face_up_cards(g.columns[i])

\* C15 as claimed: after every turn a picked-up column selection holds at
\* most the selectable cards of its column
C15_SelectedClamped ==
    (TurnCompleted /\ ui.selected.type = "Column") =>
        ui.selected.card_count
            <= Selectable(game_state, ui.selected.index, ui.debug_mode)

\* C16: after every turn a cursor on a column counts 0 cards on an empty
\* column and between 1 and the selectable cards otherwise; the count the
\* Up and Down keys compute stays within a u8
C16_CursorClamped ==
    (TurnCompleted /\ ui.cursor.type = "Column") =>
        LET col == game_state.columns[ui.cursor.index] IN
        /\ Len(col) = 0 => ui.cursor.card_count = 0
        /\ Len(col) # 0 =>
              /\ 1 <= ui.cursor.card_count
              /\ ui.cursor.card_count
                    <= Selectable(game_state, ui.cursor.index, ui.debug_mode)
        /\ ui.cursor.card_count + 1 < U8
        /\ \A up \in select_up(ui.cursor) :
              up.card_count = ui.cursor.card_count + 1
        /\ select_down(ui.cursor, game_state).card_count >= 0

\* two cards were picked up in debug mode and debug mode was switched off:
\* the cursor on that column is back to the one face-up card
C16_Witness ==
    /\ pc = "keys"
    /\ ~ui.debug_mode
    /\ ui.selected.type = "Column"
    /\ ui.cursor.type = "Column"
    /\ ui.cursor.index = ui.selected.index
    /\ ui.selected.card_count = 2
    /\ ui.cursor.card_count = 1
    /\ face_up_cards(game_state.columns[ui.cursor.index]) = 1

\* the selections over game state g: Deck, the foundations, and every
\* column with every count up to one more than it holds
Selections(g) ==
    {Deck} \cup {Pile(i) : i \in PileIndices}
      \cup UNION {{Column(i, n) : n \in 0..(Len(g.columns[i]) + 1)} :
                     i \in ColumnIndices}

\* applying the selection rules to s twice gives what applying them once
\* gives
ClampIdempotent(s, g, debug_mode) ==
    selection_rules(selection_rules(s, g, debug_mode), g, debug_mode)
        = selection_rules(s, g, debug_mode)

\* C17 as claimed: the selection rules are idempotent for every selection,
\* every game state and both debug modes
C17_ClampIdempotentAlways ==
    \A s \in Selections(game_state) : \A dm \in BOOLEAN :
        ClampIdempotent(s, game_state, dm)

\* C17 amended: the selection rules are idempotent for every selection and
\* both debug modes, except, with debug mode off, for a selection on a
\* non-empty column whose top card is face-down
C17_ClampIdempotentFaceUp ==
    \A s \in Selections(game_state) : \A dm \in BOOLEAN :
        (\/ dm
         \/ s.type # "Column"
         \/ Len(game_state.columns[s.index]) = 0
         \/ Last(game_state.columns[s.index]).state = "FaceUp")
            => ClampIdempotent(s, game_state, dm)

\* the cursor holds two or more cards of its column, and one more Up is
\* clamped back to where it is
C17_Witness ==
    /\ pc = "keys"
    /\ ui.cursor.type = "Column"
    /\ ui.cursor.card_count >= 2
    /\ \E up \in select_up(ui.cursor) :
         selection_rules(up, game_state, ui.debug_mode) = ui.cursor

\* the destinations of a move over game state g: Deck, the foundations
\* and the columns, a column as the cursor arrives on it
Destinations(g) ==
    {Deck} \cup {Pile(i) : i \in PileIndices}
      \cup {card_column(i, g) : i \in ColumnIndices}

\* the destinations in the collection of selection from
SameCollection(from, g) ==
    {to \in Destinations(g) : same_collection(from, to)}

\* C18 as claimed: valid_move returns Err for every pair of selections of
\* the same collection
C18_SameCollectionInvalid ==
    \A from \in Selections(game_state) :
        \A to \in SameCollection(from, game_state) :
            ~valid_move(from, to, game_state).ok

\* C18 amended: a move within one collection never succeeds: move_cards
\* returns Err and touches nothing, so the move attempt of cards_action
\* does not end in "move OK" and changes nothing; valid_move returns Err
\* for Deck to Deck and for a foundation to itself
C18_SameCollectionNeverMoves ==
    \A from \in Selections(game_state) :
        \A to \in SameCollection(from, game_state) :
            LET m == move_cards(from, to, game_state)
                a == cards_action([ui EXCEPT !.selected = from, !.cursor = to],
                                  game_state)
            IN  /\ ~m.ok
                /\ m.gs = game_state
                /\ a.u.debug_message # "move OK"
                /\ a.gs = game_state
                /\ from.type # "Column" => ~valid_move(from, to, game_state).ok

\* a run of a column was dropped on its own column: valid_move accepted
\* it and move_cards refused it
C18_Witness ==
    /\ pc = "keys"
    /\ ui.debug_message = "move attempt failed"
    /\ ui.cursor.type = "Column"

\* the cards of the stock of g: those of Deck and those of Waste
StockCards(g) ==
    {g.deck[k] : k \in 1..Len(g.deck)}
      \cup {g.deck_drawn[k] : k \in 1..Len(g.deck_drawn)}

\* valid_move returns Err for every source when the destination is Deck,
\* and for every foundation to every foundation
StructurallyIllegal ==
    /\ \A from \in Selections(game_state) :
          ~valid_move(from, Deck, game_state).ok
    /\ \A i \in PileIndices : \A j \in PileIndices :
          ~valid_move(Pile(i), Pile(j), game_state).ok

\* the moves that go through valid_move, the move attempt of cards_action
\* and the auto-place of Enter on a column, leave the Deck as it is and add
\* no card to the Waste
CheckedMovesKeepStock ==
    /\ LET a == cards_action(ui, game_state).gs IN
          /\ a.deck = game_state.deck
          /\ a.deck_drawn \in {game_state.deck_drawn,
                               Front(game_state.deck_drawn)}
    /\ ui.cursor.type = "Column" =>
          LET e == enter_key_action(ui, game_state).gs IN
          /\ e.deck = game_state.deck
          /\ e.deck_drawn = game_state.deck_drawn

\* key c drops a picked-up selection on the Deck cursor and move_cards
\* carries it out
UncheckedMoveOntoWaste ==
    /\ KeyC
    /\ ui.selected.type # "None"
    /\ ui.cursor.type = "Deck"
    /\ move_cards(ui.selected, ui.cursor, game_state).ok

\* a step changes the Deck only by a draw: cards went from the top of the
\* Deck to the Waste, or the Deck was empty and the Waste was turned over
DeckChangesByDraw ==
    game_state'.deck # game_state.deck =>
        \/ Len(game_state.deck) = 0
        \/ /\ Len(game_state'.deck) < Len(game_state.deck)
           /\ game_state'.deck =
                SubSeq(game_state.deck, 1, Len(game_state'.deck))
           /\ \A k \in (Len(game_state'.deck) + 1)..Len(game_state.deck) :
                 \E m \in 1..Len(game_state'.deck_drawn) :
                    game_state'.deck_drawn[m] = game_state.deck[k]

\* C19 as claimed: valid_move returns Err for every source when the
\* destination is Deck, and for every foundation to every foundation;
\* consequently no move ever adds a card to Deck or Waste: no key of the
\* game leaves a card in Deck or Waste that was in neither before, and the
\* Deck changes only by a draw
C19_NoMoveIntoStock ==
    /\ [](StructurallyIllegal /\ CheckedMovesKeepStock)
    /\ [][pc = "keys" =>
            /\ StockCards(game_state') \subseteq StockCards(game_state)
            /\ DeckChangesByDraw]_vars

\* C19 amended: valid_move returns Err for every source when the
\* destination is Deck, and for every foundation to every foundation;
\* consequently no move that goes through valid_move adds a card to Deck or
\* Waste, and no key of the game leaves a card in Deck or Waste that was
\* in neither before, but for the unchecked move of key c onto the Deck
\* cursor, which puts the one card it takes from a column or a foundation
\* on top of the Waste and leaves the Deck as it is; the Deck changes only
\* by a draw
C19_NoCheckedMoveIntoStock ==
    /\ [](StructurallyIllegal /\ CheckedMovesKeepStock)
    /\ [][/\ (pc = "keys" /\ ~UncheckedMoveOntoWaste) =>
               StockCards(game_state') \subseteq StockCards(game_state)
          /\ pc = "keys" => DeckChangesByDraw
          /\ UncheckedMoveOntoWaste =>
               /\ game_state'.deck = game_state.deck
               /\ game_state'.deck_drawn =
                    Append(game_state.deck_drawn,
                           selected_peek(ui.selected, game_state).card[1])
               /\ ui.selected.type \in {"Column", "Pile"}]_vars

\* a picked-up selection was dropped on the Deck and judged invalid
C19_Witness ==
    /\ pc = "keys"
    /\ ui.debug_message = "invalid move"
    /\ ui.cursor.type = "Deck"

\* the source of a move holds no card, or is a column asked for no card or
\* for more cards than it holds
EmptySource(from, g) ==
    CASE from.type = "Deck" -> Len(g.deck_drawn) = 0
      [] from.type = "Pile" -> Len(g.card_piles[from.index]) = 0
      [] from.type = "Column" ->
            \/ Len(g.columns[from.index]) = 0
            \/ from.card_count = 0
            \/ from.card_count > Len(g.columns[from.index])

\* C20: valid_move returns Err for every destination when the source is
\* empty, or is a column with card_count 0 or with card_count above the
\* number of cards of the column
C20_EmptySourceInvalid ==
    \A from \in {s \in Selections(game_state) : EmptySource(s, game_state)} :
        \A to \in Destinations(game_state) :
            ~valid_move(from, to, game_state).ok

\* the debug check of a move from an empty foundation to a column answered
\* Err
C20_Witness ==
    /\ pc = "keys"
    /\ ui.debug_message = "Err(())"
    /\ ui.selected.type = "Pile"
    /\ Len(game_state.card_piles[ui.selected.index]) = 0
    /\ ui.cursor.type = "Column"

---------------------------------------------------------------------------
\* the game states the turn pipeline can be handed from the current state:
\* the state itself (cursor keys, x, z, d and every other key) and the
\* results of a move attempt (Space), of Enter and, with debug mode on, of
\* the unchecked move of key c
PipelineInputs ==
    {game_state, cards_action(ui, game_state).gs,
     enter_key_action(ui, game_state).gs}
      \cup (IF ui.debug_mode
            THEN {debug_unchecked_cards_action(ui, game_state).gs}
            ELSE {})

\* game state g after the player has drawn the Deck down to its last card
\* and to nothing (Enter on Deck, once per card)
DrawnDown(g) ==
    {DrawLoop(g, k) : k \in {Len(g.deck) - 1, Len(g.deck)} \cap Nat}

\* auto_hit on game state g: one batch drawn when Deck is non-empty and
\* Waste is empty, nothing changed otherwise
AutoDrawsOneBatch(g) ==
    LET a == auto_hit(g)
        n == Min(DrawCount(g), Len(g.deck))
    IN  IF Len(g.deck) # 0 /\ Len(g.deck_drawn) = 0
        THEN /\ n >= 1
             /\ a.deck = SubSeq(g.deck, 1, Len(g.deck) - n)
             /\ a.deck_drawn = [i \in 1..n |-> g.deck[Len(g.deck) + 1 - i]]
             /\ a.columns = g.columns
             /\ a.card_piles = g.card_piles
             /\ a.game_mode = g.game_mode
        ELSE a = g

\* C22: the auto-draw step of the turn pipeline draws one batch (1 card in
\* DrawOne, up to 3 in DrawThree) exactly when Deck is non-empty and Waste
\* is empty and otherwise changes nothing, so it never recycles the Waste
\* into the Deck; after every turn pipeline an empty Waste implies an empty
\* Deck.
C22_AutoDraw ==
    /\ \A h \in PipelineInputs \cup DrawnDown(game_state) :
         \A m \in {"DrawOne", "DrawThree"} :
            AutoDrawsOneBatch([face_up_on_columns(h) EXCEPT !.game_mode = m])
    /\ TurnCompleted =>
         (Len(game_state.deck_drawn) = 0 => Len(game_state.deck) = 0)

\* the one card of the Waste was moved away and the turn pipeline has drawn
\* the next one: 22 of the 24 stock cards are left in the Deck, one lies on
\* the Waste
C22_Witness ==
    /\ pc = "keys"
    /\ Len(game_state.deck) = 22
    /\ Len(game_state.deck_drawn) = 1

---------------------------------------------------------------------------
(* The functions of Selection and of the card collections, called once on *)
(* the values the program hands them                                      *)

\* the most cards drawn from the Deck in the game states the functions are
\* called on
MaxDrawn == 2

\* game states in play: a deal with its top cards turned and one or more
\* cards drawn, and the game one move before its end
GamesInPlay ==
    {DrawLoop(face_up_on_columns(init(d)), k) : d \in Decks, k \in 1..MaxDrawn}
      \cup {GameState_almost_victory}

\* a game in play and a cursor on it, as a key handler can leave it
InitFunctions ==
    /\ game_state \in GamesInPlay
    /\ \E c \in Selections(game_state) :
         ui = [Ui_new EXCEPT !.ui_state = "Game", !.cursor = c]
    /\ pc = "call"
    /\ moves = 0
    /\ keys = 0

\* self.cursor.move_left(game_state)
CallMoveLeft ==
    /\ pc = "call"
    /\ ui' = [ui EXCEPT !.cursor = move_left(ui.cursor, game_state)]
    /\ pc' = "called"
    /\ UNCHANGED <<game_state, moves, keys>>

\* self.cursor.move_right(game_state)
CallMoveRight ==
    /\ pc = "call"
    /\ ui' = [ui EXCEPT !.cursor = move_right(ui.cursor, game_state)]
    /\ pc' = "called"
    /\ UNCHANGED <<game_state, moves, keys>>

\* self.cursor.select_up()
CallSelectUp ==
    /\ pc = "call"
    /\ \E c \in select_up(ui.cursor) :
         IF c = Panic
         THEN pc' = "panicked" /\ UNCHANGED ui
         ELSE pc' = "called" /\ ui' = [ui EXCEPT !.cursor = c]
    /\ UNCHANGED <<game_state, moves, keys>>

\* self.cursor.select_down(game_state)
CallSelectDown ==
    /\ pc = "call"
    /\ ui' = [ui EXCEPT !.cursor = select_down(ui.cursor, game_state)]
    /\ pc' = "called"
    /\ UNCHANGED <<game_state, moves, keys>>

\* the cards under the cursor are picked up and checked against a
\* destination: valid_move(from, to, game_state), its answer printed
CallValidMove ==
    /\ pc = "call"
    /\ \E to \in Destinations(game_state) :
         LET h == debug_check_valid([ui EXCEPT !.selected = ui.cursor,
                                               !.cursor = to], game_state)
         IN  ui' = h.u /\ game_state' = h.gs
    /\ pc' = "called"
    /\ UNCHANGED <<moves, keys>>

\* the cards under the cursor are taken and handed to a destination, which
\* can be the collection they came from: from.take(n), then
\* to.receive(cards) when the take succeeded
CallSendTo ==
    /\ pc = "call"
    /\ \E to \in Destinations(game_state) :
         LET t == selected_take(ui.cursor, game_state, card_count(ui.cursor))
         IN  game_state' = IF t.ok
                           THEN selected_receive(to, t.gs, t.cards).gs
                           ELSE t.gs
    /\ pc' = "called"
    /\ UNCHANGED <<ui, moves, keys>>

NextFunctions ==
    \/ CallMoveLeft
    \/ CallMoveRight
    \/ CallSelectUp
    \/ CallSelectDown
    \/ CallValidMove
    \/ CallSendTo

SpecFunctions == InitFunctions /\ [][NextFunctions]_vars

---------------------------------------------------------------------------
\* valid_move called on the current game state, for every selection `from`
\* and every destination `to`: the game state it leaves behind has the
\* Deck, the Waste, every column with its face states, every foundation and
\* the game mode of the state it was called on, whether the answer is Ok or
\* Err, and a second call on the state the first one left gives the same
\* answer and leaves the same state
ValidMoveLeavesState ==
    \A from \in Selections(game_state) :
        \A to \in Destinations(game_state) :
            LET first == valid_move(from, to, game_state)
                second == valid_move(from, to, first.gs)
            IN  /\ first.gs.deck = game_state.deck
                /\ first.gs.deck_drawn = game_state.deck_drawn
                /\ first.gs.columns = game_state.columns
                /\ first.gs.card_piles = game_state.card_piles
                /\ first.gs.game_mode = game_state.game_mode
                /\ second.ok = first.ok
                /\ second.gs = game_state

\* the debug check of a picked-up selection against the cursor, which does
\* nothing but call valid_move and print its answer, leaves the game state
\* as it was and prints the same answer when repeated; a move attempt that
\* valid_move rejects leaves the game state as it was
CheckLeavesState ==
    ui.selected.type # "None" =>
        LET first == debug_check_valid(ui, game_state)
            second == debug_check_valid(first.u, first.gs)
        IN  /\ first.gs = game_state
            /\ first.u.debug_message =
                 IF valid_move(ui.selected, ui.cursor, game_state).ok
                 THEN "Ok(())" ELSE "Err(())"
            /\ second.gs = game_state
            /\ second.u.debug_message = first.u.debug_message
            /\ ~valid_move(ui.selected, ui.cursor, game_state).ok =>
                 cards_action(ui, game_state).gs = game_state

\* C21: valid_move has no side effects. In every state, for every
\* selection `from` and every destination `to`, valid_move leaves Deck,
\* Waste, all columns with their face states, all foundations and the game
\* mode unchanged, whether it returns Ok or Err, and called twice it gives
\* the same answer; the debug check and a rejected move attempt leave the
\* game state unchanged; and every step that calls valid_move on the cards
\* under the cursor leaves the game state of the program unchanged.
C21_ValidMoveNoSideEffects ==
    /\ [](ValidMoveLeavesState /\ CheckLeavesState)
    /\ [][CallValidMove => game_state' = game_state]_vars

\* valid_move was called and has answered Ok for the card of a column held
\* over a foundation, and the card is still on its column
C21_Witness ==
    /\ pc = "called"
    /\ ui.debug_message = "Ok(())"
    /\ ui.selected.type = "Column"
    /\ ui.cursor.type = "Pile"
    /\ valid_move(ui.selected, ui.cursor, game_state).ok
    /\ Len(game_state.columns[ui.selected.index]) > 0

---------------------------------------------------------------------------
\* the place of a selection on the line Deck, Column 0 .. Column 6,
\* foundation
Position(s) ==
    CASE s.type = "Deck" -> 0
      [] s.type = "Column" -> s.index + 1
      [] s.type = "Pile" -> COLUMN_COUNT + 1

\* a column selection as navigation makes it: one card of a non-empty
\* column, no card of an empty one
EnteredByNavigation(s, g) ==
    s.type = "Column" =>
        s.card_count = IF Len(g.columns[s.index]) = 0 THEN 0 ELSE 1

\* C23: cursor navigation is a clamped line, not a ring. In the order Deck,
\* Column 0, ..., Column 6, foundation, move_left goes one place down and
\* move_right one place up; move_left on Deck leaves Deck, move_right on any
\* Pile{i} leaves it unchanged, move_right from Column 6 gives Pile{0},
\* move_left from any Pile gives Column 6 and move_left from Column 0 gives
\* Deck. A column entered by navigation has card_count 1 if it is non-empty
\* and 0 if it is empty.
C23_NavigationClampedLine ==
    \A s \in Selections(game_state) :
        LET l == move_left(s, game_state)
            r == move_right(s, game_state)
        IN  /\ Position(l) = IF Position(s) = 0 THEN 0 ELSE Position(s) - 1
            /\ Position(r) = Min(Position(s) + 1, COLUMN_COUNT + 1)
            /\ s.type = "Deck" => l = Deck
            /\ s.type = "Pile" => r = s
            /\ (s.type = "Column" /\ s.index = COLUMN_COUNT - 1) => r = Pile(0)
            /\ s.type = "Pile" => (l.type = "Column" /\ l.index = COLUMN_COUNT - 1)
            /\ (s.type = "Column" /\ s.index = 0) => l = Deck
            /\ EnteredByNavigation(l, game_state)
            /\ EnteredByNavigation(r, game_state)

\* the cursor came from the foundations onto the last column, which is
\* empty, and selects no card
C23_Witness ==
    /\ pc = "called"
    /\ ui.cursor = Column(COLUMN_COUNT - 1, 0)
    /\ Len(game_state.columns[COLUMN_COUNT - 1]) = 0

---------------------------------------------------------------------------
\* selected_collection finds the collection of selection s: its `expect`s
\* ("... should exist") do not panic
CollectionExists(s) ==
    /\ s.type = "Column" => s.index \in ColumnIndices
    /\ s.type = "Pile" => s.index \in PileIndices

\* C24: selection indices stay in range under any sequence of cursor
\* actions (move_left, move_right, select_up, select_down, Home, End): the
\* cursor and the picked-up selection always have a Column index in 0..6 or
\* a Pile index in 0..3, and so has what every cursor action makes of the
\* cursor, so that selected_collection never hits its 'should exist' panic;
\* select_up and select_down on a Pile change the index by exactly one,
\* clamped at 0 and 3, and leave a Deck selection unchanged.
C24_IndicesInRange ==
    LET s == ui.cursor
        down == select_down(s, game_state)
    IN  /\ CollectionExists(s)
        /\ ui.selected.type # "None" => CollectionExists(ui.selected)
        /\ CollectionExists(move_left(s, game_state))
        /\ CollectionExists(move_right(s, game_state))
        /\ CollectionExists(down)
        /\ CollectionExists(Deck) /\ CollectionExists(Pile(0))
        /\ s.type = "Pile" =>
             down = Pile(IF s.index = CARD_PILES_COUNT - 1
                         THEN s.index ELSE s.index + 1)
        /\ s.type = "Deck" => down = Deck
        /\ s.type = "Column" => down.index = s.index
        /\ \A up \in select_up(s) :
             /\ CollectionExists(up)
             /\ s.type = "Pile" =>
                   up = Pile(IF s.index = 0 THEN 0 ELSE s.index - 1)
             /\ s.type = "Deck" => up = Deck
             /\ s.type = "Column" => up.index = s.index

\* the cursor went down the foundations to the last one
C24_Witness ==
    /\ pc = "keys"
    /\ ui.cursor = Pile(CARD_PILES_COUNT - 1)

---------------------------------------------------------------------------
\* C25: column take/receive round trip. For every column and every n up to
\* its length, take(n) succeeds and returns the top n cards, the bottom card
\* of the run first, and leaves the cards below the run with their face
\* states; receiving the returned cards on what is left restores the
\* column's card sequence, the n returned cards FaceUp and every other card
\* in the state it had.
C25_TakeReceiveRoundTrip ==
    \A i \in ColumnIndices :
        LET col == game_state.columns[i] IN
        \A n \in 0..Len(col) :
            LET t == CardColumn_take(col, n)
                r == CardColumn_receive(t.coll, t.cards)
                rest == Len(col) - n
            IN  /\ t.ok
                /\ Len(t.cards) = n
                /\ \A k \in 1..n : t.cards[k] = col[rest + k].card
                /\ Len(t.coll) = rest
                /\ \A k \in 1..rest : t.coll[k] = col[k]
                /\ r.ok
                /\ Len(r.coll) = Len(col)
                /\ \A k \in 1..Len(col) :
                     /\ r.coll[k].card = col[k].card
                     /\ r.coll[k].state =
                          IF k > rest THEN "FaceUp" ELSE col[k].state

\* a run of two cards was taken off column j and received by column i:
\* j holds two cards fewer and i two cards more than they were dealt, and
\* the two received cards lie face up on the former top card of i
C25_Witness ==
    \E i, j \in ColumnIndices :
        LET col == game_state.columns[i] IN
        /\ pc = "called"
        /\ ui.cursor = Column(j, 2)
        /\ Len(game_state.deck) + Len(game_state.deck_drawn) = 24
        /\ Len(game_state.columns[j]) = j - 1
        /\ Len(col) = i + 3
        /\ \A k \in (i + 1)..(i + 3) : col[k].state = "FaceUp"

---------------------------------------------------------------------------
\* the top n cards of a sequence of cards, the lowest of them first
TopCards(cards, n) == [k \in 1..n |-> cards[Len(cards) - n + k]]

\* the answer peek_n owes for n cards on a collection holding `cards`
PeekNAnswer(p, cards, n) ==
    IF n <= Len(cards)
    THEN p.some /\ p.cards = TopCards(cards, n)
    ELSE ~p.some

\* the answer peek owes on a collection holding `cards`
PeekAnswer(p, cards) ==
    p = IF Len(cards) = 0 THEN <<>> ELSE <<cards[Len(cards)]>>

\* C26: peek and peek_n only read. For every collection kind (column,
\* foundation pile, Waste) peek_n(n) returns the top n cards, the lowest
\* first, when the collection holds at least n cards, and nothing when it
\* holds fewer; on a column these are exactly the cards a successful take(n)
\* returns; peek returns the top card, or nothing on an empty collection.
C26_PeekReadsTopCards ==
    /\ \A i \in ColumnIndices :
         LET col == game_state.columns[i] IN
         /\ PeekAnswer(CardColumn_peek(col), ColumnCards(col))
         /\ \A n \in 0..(Len(col) + 1) :
              /\ PeekNAnswer(CardColumn_peek_n(col, n), ColumnCards(col), n)
              /\ n <= Len(col) =>
                   CardColumn_peek_n(col, n).cards = CardColumn_take(col, n).cards
    /\ \A i \in PileIndices :
         LET pile == game_state.card_piles[i] IN
         /\ PeekAnswer(CardPile_peek(pile), pile)
         /\ \A n \in 0..(Len(pile) + 1) :
              PeekNAnswer(CardPile_peek_n(pile, n), pile, n)
    /\ PeekAnswer(Vec_peek(game_state.deck_drawn), game_state.deck_drawn)
    /\ \A n \in 0..(Len(game_state.deck_drawn) + 1) :
         PeekNAnswer(Vec_peek_n(game_state.deck_drawn, n),
                     game_state.deck_drawn, n)

\* the validity check has peeked at a run of three cards of a column and
\* answered Ok
C26_Witness ==
    /\ pc = "called"
    /\ ui.debug_message = "Ok(())"
    /\ ui.selected.type = "Column"
    /\ ui.selected.card_count = 3
    /\ ui.cursor.type = "Column"
    /\ CardColumn_peek_n(game_state.columns[ui.selected.index], 3).some

---------------------------------------------------------------------------
\* the most cards asked of take on a foundation or on the Waste
MaxTake == 3

\* the runs of cards a take on a column of game state g can hand to
\* receive, the empty run among them
Runs(g) ==
    {CardColumn_peek_n(g.columns[i], n).cards :
        i \in ColumnIndices, n \in 0..MaxTake}

\* take(n) on a single-card collection holding `cards`, with its result t
SingleCardTake(t, cards, n) ==
    /\ t.ok <=> (n = 1 /\ Len(cards) > 0)
    /\ t.ok => (t.cards = <<Last(cards)>> /\ t.coll = Front(cards))
    /\ ~t.ok => t.coll = cards

\* receive(run) on a single-card collection holding `cards`, with its
\* result r
SingleCardReceive(r, cards, run) ==
    /\ r.ok <=> Len(run) = 1
    /\ r.ok => r.coll = Append(cards, run[1])
    /\ ~r.ok => r.coll = cards

\* C27: single-card collections. On a foundation pile and on the Waste,
\* take(n) succeeds only for n = 1 on a non-empty collection and
\* receive(cards) only when exactly one card is given; every other call
\* returns Err and leaves the collection unchanged. A column's receive
\* accepts any number of cards, never fails, and appends every received card
\* FaceUp above the cards it held.
C27_SingleCardCollections ==
    /\ \A n \in 0..MaxTake :
         /\ \A i \in PileIndices :
              SingleCardTake(CardPile_take(game_state.card_piles[i], n),
                             game_state.card_piles[i], n)
         /\ SingleCardTake(Vec_take(game_state.deck_drawn, n),
                           game_state.deck_drawn, n)
    /\ \A run \in Runs(game_state) :
         /\ \A i \in PileIndices :
              SingleCardReceive(CardPile_receive(game_state.card_piles[i], run),
                                game_state.card_piles[i], run)
         /\ SingleCardReceive(Vec_receive(game_state.deck_drawn, run),
                              game_state.deck_drawn, run)
         /\ \A i \in ColumnIndices :
              LET col == game_state.columns[i]
                  r == CardColumn_receive(col, run)
              IN  /\ r.ok
                  /\ Len(r.coll) = Len(col) + Len(run)
                  /\ \A k \in 1..Len(col) : r.coll[k] = col[k]
                  /\ \A k \in 1..Len(run) :
                       r.coll[Len(col) + k] = Entry(run[k], "FaceUp")

\* two cards were taken off a column of a deal and handed to a foundation
\* or to the Waste, which refused them: the column is two cards shorter and
\* every other collection is as long as it was
C27_Witness ==
    /\ pc = "called"
    /\ ui.cursor.type = "Column"
    /\ ui.cursor.card_count = 2
    /\ Len(game_state.columns[ui.cursor.index]) = ui.cursor.index - 1
    /\ Len(CardsIn(game_state)) = 50

---------------------------------------------------------------------------
\* C28: the face-up cards of a column are always one run at its top. In
\* every reachable state and in every column no FaceDown card lies above a
\* FaceUp card, so face_up_cards() is the number of FaceUp cards of the
\* column.
C28_FaceUpRunAtTop ==
    \A i \in ColumnIndices :
        LET col == game_state.columns[i] IN
        /\ \A k \in 1..(Len(col) - 1) :
             col[k].state = "FaceUp" => col[k + 1].state = "FaceUp"
        /\ face_up_cards(col) =
             Cardinality({k \in 1..Len(col) : col[k].state = "FaceUp"})

\* a column holds FaceDown cards under a run of more than one FaceUp card
C28_Witness ==
    /\ pc = "keys"
    /\ \E i \in ColumnIndices :
         LET col == game_state.columns[i] IN
         /\ Len(col) >= 3
         /\ col[1].state = "FaceDown"
         /\ face_up_cards(col) >= 2

---------------------------------------------------------------------------
\* the cards of columns 0 to i of game state g, one column after the other,
\* each from its bottom card to its top card
RECURSIVE DealtCards(_, _)
DealtCards(g, i) ==
    IF i < 0 THEN <<>>
    ELSE DealtCards(g, i - 1) \o ColumnCards(g.columns[i])

\* g is what dealing the 52-card deck d gives
DealOf(g, d) ==
    /\ \A i \in ColumnIndices :
         /\ Len(g.columns[i]) = i + 1
         /\ \A k \in 1..(i + 1) : g.columns[i][k].state = "FaceDown"
    /\ DealtCards(g, COLUMN_COUNT - 1) = Reverse(SubSeq(d, 25, 52))
    /\ g.deck = SubSeq(d, 1, 24)
    /\ g.deck_drawn = <<>>
    /\ \A i \in PileIndices : g.card_piles[i] = <<>>
    /\ g.game_mode = "DrawOne"

\* a new game has been dealt and no turn has been taken in it
JustDealt ==
    /\ pc = "run"
    /\ ui.ui_state \in {"Intro", "NewGame", "Game"}
    /\ game_state \notin {GameState_almost_victory, GameState_victory}

\* C29: initial deal. GameState::init on a 52-card deck deals from the top
\* (the end) of the deck: column i (0..6) receives i+1 cards, all FaceDown,
\* in the order they are popped, column 0 first; the other 24 cards remain
\* in Deck in their order; Waste and the 4 foundations are empty; the mode
\* is DrawOne; the state is determined by the deck ordering. Every game
\* starts in the deal of one of the orderings: the ordered deck of main, or
\* a shuffle of run_new_game.
C29_InitialDeal ==
    JustDealt =>
        /\ \A d \in Decks \cup {ordered_deck} : DealOf(init(d), d)
        /\ \E d \in Decks \cup {ordered_deck} :
              game_state = init(d) /\ DealOf(game_state, d)
        /\ ui.ui_state = "Intro" => DealOf(game_state, ordered_deck)

\* the new game of run_new_game has been dealt from the ordering that ends
\* with the Ace of Hearts: the Ace lies face down on column 0, all 24 stock
\* cards are in the Deck
C29_Witness ==
    /\ pc = "run"
    /\ ui.ui_state = "Game"
    /\ game_state.columns[0] = <<Entry(Card(Hearts, Ace), "FaceDown")>>
    /\ Len(game_state.deck) = 24

---------------------------------------------------------------------------
\* C30 as claimed: hidden cards stay put in normal play. With debug mode
\* never enabled, no key (pick-up, cursor move, draw, auto-place, validated
\* move) transfers a card that is FaceDown when it is transferred: a card
\* that lies FaceDown in its column when the key is read is still at its
\* place in that column when the turn is over.
C30_HiddenCardsStayPut ==
    [][InKeyLoop =>
         \A i \in ColumnIndices :
            \A k \in 1..Len(game_state.columns[i]) :
               game_state.columns[i][k].state = "FaceDown" =>
                  /\ Len(game_state'.columns[i]) >= k
                  /\ game_state'.columns[i][k].card =
                       game_state.columns[i][k].card]_vars

---------------------------------------------------------------------------
(* A game some moves after its deal, in normal play *)

\* the Ui and the game state of the deal of DeckB after the keys Right,
\* Enter (the Ace of Hearts goes to its foundation, column 0 is empty),
\* Home, Space, Right x5, Space (the 2 of Hearts goes from the Waste onto
\* the 3 of Spades of column 4), each key followed by the turn pipeline
MidGame ==
    LET t0 == {turn_actions([reset_for_new_game(Ui_new)
                                EXCEPT !.ui_state = "Game"], init(DeckB))}
        h1 == {enter_key_action([t.u EXCEPT !.cursor = card_column(0, t.gs)],
                                t.gs) : t \in t0}
        t1 == {turn_actions(h.u, h.gs) : h \in h1}
        h2 == {cards_action([t.u EXCEPT !.cursor = Deck], t.gs) : t \in t1}
        t2 == {turn_actions(h.u, h.gs) : h \in h2}
        h3 == {cards_action([t.u EXCEPT !.cursor = card_column(4, t.gs)],
                            t.gs) : t \in t2}
    IN  CHOOSE t \in {turn_actions(h.u, h.gs) : h \in h3} : TRUE

InitMidGame ==
    /\ ui = MidGame.u
    /\ game_state = MidGame.gs
    /\ pc = "keys"
    /\ moves = 0
    /\ keys = 0

\* the most keys pressed after the ten of MidGame in one behaviour of
\* SpecMidGame
MaxMidKeys == 8

MidCounted == keys < MaxMidKeys /\ keys' = keys + 1

\* the keys of normal play
NextMidGame ==
    \/ KeyLeft /\ MidCounted
    \/ KeyRight /\ MidCounted
    \/ KeyUp /\ MidCounted
    \/ KeyDown /\ MidCounted
    \/ KeyHome /\ MidCounted
    \/ KeyEnd /\ MidCounted
    \/ KeySpace /\ MidCounted
    \/ KeyEnter /\ MidCounted
    \/ KeyX /\ MidCounted
    \/ KeyEsc /\ MidCounted

SpecMidGame == InitMidGame /\ [][NextMidGame]_vars

---------------------------------------------------------------------------
\* card `upper` may lie on card `lower` in a Klondike run: one rank lower,
\* the other colour
RunStep(lower, upper) ==
    /\ upper.rank + 1 = lower.rank
    /\ is_red(upper.suit) # is_red(lower.suit)

\* C31 as claimed: well-formed runs. With debug mode never enabled, in every
\* reachable state the face-up run of every column is a legal Klondike
\* sequence: each FaceUp card lying directly on another FaceUp card has rank
\* one lower than and colour opposite to the card beneath it.
C31_WellFormedRuns ==
    \A i \in ColumnIndices :
        LET col == game_state.columns[i] IN
        \A k \in 1..(Len(col) - 1) :
            (col[k].state = "FaceUp" /\ col[k + 1].state = "FaceUp") =>
                RunStep(col[k].card, col[k + 1].card)

---------------------------------------------------------------------------
\* C32 as claimed: a column take that asks for too much fails cleanly. For
\* every column and every n greater than the number of cards in it, take(n)
\* returns Err and the column still holds exactly the cards and face states
\* it held before the call.
C32_OversizedTakeFailsCleanly ==
    \A i \in ColumnIndices :
        LET col == game_state.columns[i] IN
        \A n \in (Len(col) + 1)..(Len(col) + MaxTake) :
            LET t == CardColumn_take(col, n) IN
            /\ ~t.ok
            /\ t.coll = col

---------------------------------------------------------------------------
\* the answer of cards_action when `from` is the picked-up selection and the
\* cursor is on `to`
SpaceAnswer(from, to) ==
    cards_action([ui EXCEPT !.selected = from, !.cursor = to],
                 game_state).u.debug_message

\* C33: validation implies a successful transfer. For every selection `from`
\* and every destination `to` in another collection, when valid_move(from, to)
\* answers Ok the move_cards(from, to) that follows answers Ok, and
\* cards_action does not end in "move attempt failed"; that outcome is left
\* to the pairs of one collection.
C33_ValidatedMoveSucceeds ==
    \A from \in Selections(game_state) : \A to \in Destinations(game_state) :
        /\ (~same_collection(from, to) /\ valid_move(from, to, game_state).ok)
              => move_cards(from, to, game_state).ok
        /\ SpaceAnswer(from, to) = "move attempt failed"
              => same_collection(from, to)

\* valid_move has answered Ok for the cards under a column's cursor held
\* over another collection, and the move_cards that follows transfers them
C33_Witness ==
    /\ pc = "called"
    /\ ui.debug_message = "Ok(())"
    /\ ui.selected.type = "Column"
    /\ ~same_collection(ui.selected, ui.cursor)
    /\ valid_move(ui.selected, ui.cursor, game_state).ok
    /\ move_cards(ui.selected, ui.cursor, game_state).ok
    /\ SpaceAnswer(ui.selected, ui.cursor) = "move OK"

---------------------------------------------------------------------------
\* what the collection of selection s holds in game state g: the entries of
\* a column, the cards of a foundation or of the Waste, bottom to top
Held(s, g) ==
    CASE s.type = "Deck" -> g.deck_drawn
      [] s.type = "Column" -> g.columns[s.index]
      [] s.type = "Pile" -> g.card_piles[s.index]

\* the cards of the collection of s, bottom to top, face states left out
HeldCards(s, g) ==
    IF s.type = "Column"
    THEN [k \in 1..Len(Held(s, g)) |-> Held(s, g)[k].card]
    ELSE Held(s, g)

\* the effect and the frame of move_cards(from, to) taking game state g to
\* game state h
MoveEffect(from, to, g, h) ==
    LET n == card_count(from)
        before == HeldCards(from, g)
        moved == [k \in 1..n |-> before[Len(before) - n + k]]
    IN  /\ n <= Len(before)
        /\ Held(from, h) = SubSeq(Held(from, g), 1, Len(before) - n)
        /\ Held(to, h) =
             Held(to, g) \o (IF to.type = "Column"
                             THEN [k \in 1..n |-> Entry(moved[k], "FaceUp")]
                             ELSE moved)
        /\ \A s \in Destinations(g) :
             (~same_collection(s, from) /\ ~same_collection(s, to))
                => Held(s, h) = Held(s, g)
        /\ h.deck = g.deck
        /\ h.game_mode = g.game_mode

\* C34: effect and frame of a successful move. When move_cards(from, to)
\* returns Ok, the source has lost exactly its top card_count cards, the
\* destination has gained exactly those cards on top in the same order
\* (FaceUp on a column), the face states of the cards left in the source are
\* unchanged, and every other collection, the Deck and the game mode are
\* unchanged.
C34_MoveEffectAndFrame ==
    \A from \in Selections(game_state) : \A to \in Destinations(game_state) :
        LET m == move_cards(from, to, game_state) IN
        m.ok => MoveEffect(from, to, game_state, m.gs)

\* the game state is what a successful move_cards of two cards from the
\* column under the cursor to another column made of a game in play
C34_Witness ==
    /\ pc = "called"
    /\ ui.cursor.type = "Column"
    /\ ui.cursor.card_count = 2
    /\ \E g \in GamesInPlay : \E to \in Destinations(g) :
         /\ to.type = "Column"
         /\ move_cards(ui.cursor, to, g).ok
         /\ game_state = move_cards(ui.cursor, to, g).gs
         /\ game_state # g

---------------------------------------------------------------------------
\* a Space key with nothing picked up: the cursor is picked up when its
\* card_count is above 0, nothing is picked up otherwise, and the game state
\* is as before
PickUp ==
    /\ ui'.selected = IF card_count(ui.cursor) > 0 THEN ui.cursor
                      ELSE NoSelection
    /\ game_state' = game_state

\* a Space key with a selection picked up: nothing is picked up afterwards;
\* when cards moved, the collection under the cursor gained the picked-up
\* cards on top
Drop ==
    /\ ui'.selected = NoSelection
    /\ ui'.debug_message \in {"move OK", "invalid move", "move attempt failed",
                              "Victory"}
    /\ game_state' # game_state =>
         HeldCards(ui.cursor, game_state') =
             HeldCards(ui.cursor, game_state)
                \o TopCards(HeldCards(ui.selected, game_state),
                            card_count(ui.selected))

\* C35: pick-up / drop protocol. Space with no picked-up selection picks up
\* the cursor iff its card_count is above 0 and changes no pile; Space with a
\* picked-up selection always ends with nothing picked up, whether the move
\* succeeded, was judged invalid or failed in transfer, and a transfer it
\* makes lands on the collection under the cursor; a picked-up selection
\* appears only in a turn that began with nothing picked up, as the cursor
\* of that turn, and that turn moves no card, so every transfer through Space
\* follows a pick-up of an earlier turn.
C35_PickUpDropProtocol ==
    [][/\ KeySpace => IF ui.selected.type = "None" THEN PickUp ELSE Drop
       /\ (ui'.selected.type # "None" /\ ui'.selected # ui.selected)
             => /\ ui.selected.type = "None"
                /\ ui'.selected = ui.cursor
                /\ game_state' = game_state]_vars

\* a Space key dropped a picked-up selection whose move was validated and
\* failed in transfer, and nothing is picked up
C35_Witness ==
    /\ pc = "keys"
    /\ ui.debug_message = "move attempt failed"
    /\ ui.selected.type = "None"

---------------------------------------------------------------------------
\* the order in which the stock of g comes up: the Deck from its bottom
\* card to its top card, followed by the Waste from its top card down
StockOrder(g) == g.deck \o Reverse(g.deck_drawn)

RECURSIVE Exhaust(_)
\* draw actions on g until the Deck is empty
Exhaust(g) == IF Len(g.deck) = 0 THEN g ELSE Exhaust(deck_hit(g))

\* a pass through the Deck of g begun with an empty Waste: after the first
\* draw action, the draws to exhaustion and the recycling draw action, Deck
\* and Waste are what they were after the first draw action
PassRepeats(g) ==
    LET first == deck_hit([g EXCEPT !.deck_drawn = <<>>])
        again == deck_hit(Exhaust(first))
    IN  /\ Len(Exhaust(first).deck) = 0
        /\ again = first

\* C36: recycling preserves draw order. No draw action, recycling or not,
\* changes the order in which the stock comes up (the Deck bottom to top,
\* then the Waste top to bottom), and a Deck drawn to exhaustion and recycled
\* with no Waste card played is again the Deck and the Waste of the pass
\* before, in DrawOne and in DrawThree.
C36_RecyclePreservesOrder ==
    [][DeckHit =>
          /\ StockOrder(game_state') = StockOrder(game_state)
          /\ PassRepeats(game_state)
          /\ PassRepeats(game_state')]_vars

\* DrawThree: the second draw action recycled the stock of a deal and drew
\* three cards; the stock comes up in the order of the deal
C36_Witness ==
    /\ pc = "hit"
    /\ game_state.game_mode = "DrawThree"
    /\ moves = 2
    /\ Len(game_state.deck_drawn) = 3
    /\ Len(game_state.deck) + 3 = Len(init(DeckA).deck)
    /\ StockOrder(game_state) \in {init(d).deck : d \in Decks}

====
